---- MODULE Spec2Model ----
(***************************************************************************)
(* Weather-record store (src/database.py, class WeatherDatabase) and the   *)
(* save / duplicate-confirmation workflow of the application layer         *)
(* (src/main.py, classes TemperatureDisplay, SaveRecordsPopup and          *)
(* ConfirmUpdatePopup).                                                     *)
(*                                                                         *)
(* Texts are sequences of one-character strings, so that SQLite's LIKE     *)
(* (wildcards, ASCII case folding) and its BINARY collation are computed   *)
(* character by character as the database computes them.                   *)
(***************************************************************************)
EXTENDS Integers, Sequences, FiniteSets, Bags, TLC

(***************************************************************************)
(* Bounds of the model.                                                    *)
(***************************************************************************)
\* Number of consecutive calendar days the model offers for saving.
MaxDays == 2

\* Largest number of rows the table holds in the model.
MaxRows == 3

\* Last second of the clock of the model.
MaxClock == 1

\* Largest number of connections the model lets be open at once.
MaxConnections == 2

\* Largest number of lookups that are scheduled and not yet run.
MaxScheduled == 2

(***************************************************************************)
(* Texts.                                                                  *)
(***************************************************************************)
\* Python's None.
None == [none |-> TRUE]

\* The record kept of the latest operation: its name, its arguments, what it
\* returned and the calls it made on the store.
Call(op, args, ret, writes) == [op |-> op, args |-> args, ret |-> ret, writes |-> writes]

\* Code point of a character (ASCII), as compared by BINARY collation.
Ord(c) ==
    CASE c = " " -> 32 [] c = "%" -> 37 [] c = "&" -> 38 [] c = "," -> 44
      [] c = "0" -> 48 [] c = "1" -> 49 [] c = "2" -> 50 [] c = "3" -> 51
      [] c = "4" -> 52 [] c = "5" -> 53 [] c = "6" -> 54 [] c = "7" -> 55
      [] c = "8" -> 56 [] c = "9" -> 57
      [] c = "A" -> 65 [] c = "B" -> 66 [] c = "U" -> 85
      [] c = "_" -> 95
      [] c = "a" -> 97 [] c = "b" -> 98

\* ASCII case folding, as SQLite's LIKE applies it to both operands.
Fold(c) ==
    CASE c = "A" -> "a"
      [] c = "B" -> "b"
      [] OTHER -> c

\* Comparison of two texts under BINARY collation: -1, 0 or 1.
RECURSIVE TextCmp(_, _)
TextCmp(s, t) ==
    IF s = <<>> /\ t = <<>> THEN 0
    ELSE IF s = <<>> THEN -1
    ELSE IF t = <<>> THEN 1
    ELSE IF Ord(Head(s)) < Ord(Head(t)) THEN -1
    ELSE IF Ord(Head(s)) > Ord(Head(t)) THEN 1
    ELSE TextCmp(Tail(s), Tail(t))

\* SQLite's  txt LIKE pat : % matches any run of characters, _ matches one
\* character, every other character matches itself up to ASCII case.
RECURSIVE Like(_, _)
Like(pat, txt) ==
    IF pat = <<>> THEN txt = <<>>
    ELSE IF Head(pat) = "%"
        THEN Like(Tail(pat), txt) \/ (txt # <<>> /\ Like(pat, Tail(txt)))
    ELSE IF txt = <<>> THEN FALSE
    ELSE IF Head(pat) = "_" THEN Like(Tail(pat), Tail(txt))
    ELSE Fold(Head(pat)) = Fold(Head(txt)) /\ Like(Tail(pat), Tail(txt))

\* The pattern f'%{location}%' handed to LIKE.
LikePattern(location) == <<"%">> \o location \o <<"%">>

\* One decimal digit as a character.
Digit(n) ==
    CASE n = 0 -> "0" [] n = 1 -> "1" [] n = 2 -> "2" [] n = 3 -> "3"
      [] n = 4 -> "4" [] n = 5 -> "5" [] n = 6 -> "6" [] n = 7 -> "7"
      [] n = 8 -> "8" [] n = 9 -> "9"

\* A calendar day as text, strftime("%Y-%m-%d"): zero-padded, fixed width.
\* The days of the model lie in one month, so the "%Y-%m-" prefix they all
\* share is left out and the text is the two digits of "%d".
DateStr(day) == <<Digit(day \div 10), Digit(day % 10)>>

(***************************************************************************)
(* Inputs.                                                                 *)
(***************************************************************************)
\* The days offered for saving: today and the days after it.  They straddle
\* a change in the number of digits (9, 10, ...).
Days == 9 .. (8 + MaxDays)

\* Location labels of the lookups of the application: "a" is contained in
\* "ab".
Locations == {<<"a">>, <<"a", "b">>}

\* Search strings handed to get_records_by_location: the locations, one
\* that differs from a location in letter case only, a LIKE wildcard and the
\* empty text.
SearchStrings == Locations \cup {<<"A">>, <<"_">>, <<>>}

\* The values a forecast period gives a record.
Forecasts ==
    { [temperature |-> 72, wind_speed |-> "10 mph", wind_direction |-> "NW",
       forecast |-> "Sunny"],
      [temperature |-> 75, wind_speed |-> "5 mph", wind_direction |-> "N",
       forecast |-> "Cloudy"] }

(***************************************************************************)
(* State.                                                                  *)
(***************************************************************************)
VARIABLES
    table,              \* weather_records: a bag of rows (the id column, which
                        \* no query reads, is left out)
    storageOK,          \* FALSE while the storage medium raises sqlite3.Error
    now,                \* CURRENT_TIMESTAMP
    pending_save_info,  \* TemperatureDisplay.pending_save_info
    popups,             \* the open ConfirmUpdatePopups, oldest first
    loop,               \* position of SaveRecordsPopup.save_selected
    view,               \* the open ViewRecordsPopup, or None
    file,               \* weather_records.xml: the parts written, or None
    connections,        \* number of sqlite3 connections that are open
    scheduled,          \* the _fetch_and_update callbacks Clock has scheduled
    display,            \* what weather_info and forecast_list show
    current_weather_data,   \* TemperatureDisplay.current_weather_data
    current_weather_obj,    \* TemperatureDisplay.current_weather_obj
    save_popup,         \* the open SaveRecordsPopup, or None
    last                \* the last operation: its name, result and store writes

\* The state of the weather lookup and of the Save Records button.
lookup == <<scheduled, display, current_weather_data, current_weather_obj, save_popup>>

vars == <<table, storageOK, now, pending_save_info, popups, loop, view, file, connections, lookup, last>>

\* A row of weather_records.
Row(location, date, temperature, wind_speed, wind_direction, forecast, created_at) ==
    [location |-> location, date |-> date, temperature |-> temperature,
     wind_speed |-> wind_speed, wind_direction |-> wind_direction,
     forecast |-> forecast, created_at |-> created_at]

\* The rows of a table, without multiplicity.
Rows(tbl) == BagToSet(tbl)

\* The rows of a table whose key is (location, date).
RowsAt(tbl, location, date) ==
    {r \in Rows(tbl) : r.location = location /\ r.date = date}

\* The table without the rows that satisfy keep = FALSE.
Restrict(tbl, keep) == [r \in {x \in Rows(tbl) : x \in keep} |-> tbl[r]]

(***************************************************************************)
(* WeatherDatabase.                                                        *)
(***************************************************************************)
\* INSERT without conflict resolution: a plain append.
save_weather_record_insert_only(tbl, ok, ts, location, date_str, temperature, wind_speed, wind_direction, forecast) ==
    IF ~ok THEN [table |-> tbl, ret |-> FALSE]
    ELSE [table |-> tbl (+) SetToBag({Row(location, date_str, temperature,
                            wind_speed, wind_direction, forecast, ts)}),
          ret |-> TRUE]

\* An update in place: the row in conflict keeps its created_at.
save_weather_record_keeping_created_at(tbl, ok, ts, location, date_str, temperature, wind_speed, wind_direction, forecast) ==
    IF ~ok THEN [table |-> tbl, ret |-> FALSE]
    ELSE LET old == RowsAt(tbl, location, date_str)
             at  == IF old = {} THEN ts ELSE (CHOOSE r \in old : TRUE).created_at
         IN  [table |-> Restrict(tbl, Rows(tbl) \ old)
                          (+) SetToBag({Row(location, date_str, temperature,
                                wind_speed, wind_direction, forecast, at)}),
              ret |-> TRUE]

\* INSERT OR REPLACE under UNIQUE(location, date): the rows in conflict are
\* deleted, the new row is inserted with created_at = CURRENT_TIMESTAMP.
\* A storage fault is caught: nothing is written and False is returned.
save_weather_record(tbl, ok, ts, location, date_str, temperature, wind_speed, wind_direction, forecast) ==
    IF ~ok THEN [table |-> tbl, ret |-> FALSE]
    ELSE [table |-> Restrict(tbl, Rows(tbl) \ RowsAt(tbl, location, date_str))
                      (+) SetToBag({Row(location, date_str, temperature,
                            wind_speed, wind_direction, forecast, ts)}),
          ret |-> TRUE]

\* DELETE with the location matched as get_records_by_location matches it.
delete_record_by_substring(tbl, ok, location, date_str) ==
    IF ~ok THEN [table |-> tbl, ret |-> FALSE]
    ELSE LET hit == {r \in Rows(tbl) : Like(LikePattern(location), r.location) /\ r.date = date_str}
         IN  [table |-> Restrict(tbl, Rows(tbl) \ hit), ret |-> hit # {}]

\* DELETE ... WHERE location = ? AND date = ? ; True iff rowcount > 0.
delete_record(tbl, ok, location, date_str) ==
    IF ~ok THEN [table |-> tbl, ret |-> FALSE]
    ELSE [table |-> Restrict(tbl, Rows(tbl) \ RowsAt(tbl, location, date_str)),
          ret |-> RowsAt(tbl, location, date_str) # {}]

\* SELECT COUNT(*) answered although the storage is faulty.
get_record_count_ignoring_fault(tbl, ok) == BagCardinality(tbl)

\* SELECT COUNT(*) ; 0 on a storage fault.
get_record_count(tbl, ok) == IF ~ok THEN 0 ELSE BagCardinality(tbl)

\* r1 comes before r2 under ORDER BY date ASC, location ASC.
ComesFirstDateAsc(r1, r2) ==
    \/ TextCmp(r1.date, r2.date) = -1
    \/ TextCmp(r1.date, r2.date) = 0 /\ TextCmp(r1.location, r2.location) = -1

\* r1 comes before r2 under ORDER BY date DESC, location ASC.
ComesFirst(r1, r2) ==
    \/ TextCmp(r1.date, r2.date) = 1
    \/ TextCmp(r1.date, r2.date) = 0 /\ TextCmp(r1.location, r2.location) = -1

\* The rows of a table as the sequence ORDER BY date DESC, location ASC
\* gives (rows that agree on both columns come in either order).
RECURSIVE OrderByDateDescLocationAsc(_)
OrderByDateDescLocationAsc(tbl) ==
    IF tbl = EmptyBag THEN <<>>
    ELSE LET first == CHOOSE r \in Rows(tbl) : \A x \in Rows(tbl) : ~ComesFirst(x, r)
         IN  <<first>> \o OrderByDateDescLocationAsc(tbl (-) SetToBag({first}))

\* get_all_records: every row, ORDER BY date DESC, location ASC; the empty
\* list on a storage fault.
get_all_records(tbl, ok) ==
    IF ~ok THEN <<>> ELSE OrderByDateDescLocationAsc(tbl)

\* The sequences ORDER BY date DESC allows for the rows of a table: SQL
\* leaves the order of rows with equal date open, so each such order is one
\* possible result.
RECURSIVE OrderByDateDesc(_)
OrderByDateDesc(tbl) ==
    IF tbl = EmptyBag THEN {<<>>}
    ELSE UNION { { <<r>> \o rest : rest \in OrderByDateDesc(tbl (-) SetToBag({r})) } :
                 r \in {y \in Rows(tbl) : \A x \in Rows(tbl) : TextCmp(x.date, y.date) # 1} }

\* get_records_by_location: the possible results of
\*   SELECT ... WHERE location LIKE '%<location>%' ORDER BY date DESC ;
\* the empty list on a storage fault.
get_records_by_location(tbl, ok, location) ==
    IF ~ok THEN {<<>>}
    ELSE OrderByDateDesc(Restrict(tbl, {r \in Rows(tbl) : Like(LikePattern(location), r.location)}))

(***************************************************************************)
(* TemperatureDisplay: the save path and the duplicate confirmation.       *)
(***************************************************************************)
\* The dict stashed in pending_save_info for a save request.
PendingInfo(location, date_str, req) ==
    [location |-> location, date_str |-> date_str, temperature |-> req.temperature,
     wind_speed |-> req.wind_speed, wind_direction |-> req.wind_direction,
     forecast |-> req.forecast]

\* One call of WeatherDatabase.save_weather_record, as logged in last.writes.
SaveCall(location, date_str, temperature, wind_speed, wind_direction, forecast) ==
    [fn |-> "save_weather_record", location |-> location, date_str |-> date_str,
     temperature |-> temperature, wind_speed |-> wind_speed,
     wind_direction |-> wind_direction, forecast |-> forecast]

\* A save path without the duplicate check: the store's save is called at once.
TemperatureDisplay_save_without_check(tbl, ok, ts, pending, open, existing_records, location, date_str, req) ==
    LET s == save_weather_record(tbl, ok, ts, location, date_str, req.temperature,
                                 req.wind_speed, req.wind_direction, req.forecast)
    IN  [table |-> s.table, pending |-> pending, popups |-> open, ret |-> s.ret,
         writes |-> <<SaveCall(location, date_str, req.temperature, req.wind_speed,
                               req.wind_direction, req.forecast)>>]

\* A save path that does not wait for the confirmation: on a duplicate it
\* opens the popup and calls the store's save as well.
TemperatureDisplay_save_before_confirmation(tbl, ok, ts, pending, open, existing_records, location, date_str, req) ==
    LET duplicate_found ==
            \E i \in 1..Len(existing_records) : existing_records[i].date = date_str
        s == save_weather_record(tbl, ok, ts, location, date_str, req.temperature,
                                 req.wind_speed, req.wind_direction, req.forecast)
    IN  [table |-> s.table,
         pending |-> IF duplicate_found THEN PendingInfo(location, date_str, req) ELSE pending,
         popups |-> IF duplicate_found
                    THEN Append(open, [location |-> location, date_str |-> date_str,
                                       request |-> PendingInfo(location, date_str, req)])
                    ELSE open,
         ret |-> ~duplicate_found /\ s.ret,
         writes |-> <<SaveCall(location, date_str, req.temperature, req.wind_speed,
                               req.wind_direction, req.forecast)>>]

\* TemperatureDisplay.save_weather_record, given the list existing_records
\* that get_records_by_location(location) returned.  A record of that list
\* with the requested date is a duplicate: the request is stashed, a
\* ConfirmUpdatePopup is opened and False is returned.  Otherwise the store's
\* save is called and its result returned.  A popup of the model also
\* remembers the request that opened it (request), which the code's popup
\* does not hold: it is what the claims about "the request that raised the
\* conflict" speak of.
TemperatureDisplay_save_weather_record(tbl, ok, ts, pending, open, existing_records, location, date_str, req) ==
    LET duplicate_found ==
            \E i \in 1..Len(existing_records) : existing_records[i].date = date_str
    IN  IF duplicate_found
        THEN [table |-> tbl,
              pending |-> PendingInfo(location, date_str, req),
              popups |-> Append(open, [location |-> location, date_str |-> date_str,
                                       request |-> PendingInfo(location, date_str, req)]),
              ret |-> FALSE,
              writes |-> <<>>]
        ELSE LET s == save_weather_record(tbl, ok, ts, location, date_str, req.temperature,
                                          req.wind_speed, req.wind_direction, req.forecast)
             IN  [table |-> s.table,
                  pending |-> pending,
                  popups |-> open,
                  ret |-> s.ret,
                  writes |-> <<SaveCall(location, date_str, req.temperature, req.wind_speed,
                                        req.wind_direction, req.forecast)>>]

\* A confirmation handler that ignores the signal: it saves on Cancel too.
handle_duplicate_confirmation_ignoring_signal(tbl, ok, ts, pending, should_update) ==
    IF pending # None
    THEN LET s == save_weather_record(tbl, ok, ts, pending.location, pending.date_str,
                                      pending.temperature, pending.wind_speed,
                                      pending.wind_direction, pending.forecast)
         IN  [table |-> s.table, pending |-> None, ret |-> s.ret,
              writes |-> <<SaveCall(pending.location, pending.date_str, pending.temperature,
                                    pending.wind_speed, pending.wind_direction,
                                    pending.forecast)>>]
    ELSE [table |-> tbl, pending |-> None, ret |-> FALSE, writes |-> <<>>]

\* A confirmation handler that clears the slot only after a successful save.
handle_duplicate_confirmation_clear_on_success(tbl, ok, ts, pending, should_update) ==
    IF should_update /\ pending # None
    THEN LET s == save_weather_record(tbl, ok, ts, pending.location, pending.date_str,
                                      pending.temperature, pending.wind_speed,
                                      pending.wind_direction, pending.forecast)
         IN  [table |-> s.table,
              pending |-> IF s.ret THEN None ELSE pending,
              ret |-> s.ret,
              writes |-> <<SaveCall(pending.location, pending.date_str, pending.temperature,
                                    pending.wind_speed, pending.wind_direction,
                                    pending.forecast)>>]
    ELSE [table |-> tbl, pending |-> None, ret |-> FALSE, writes |-> <<>>]

\* TemperatureDisplay.handle_duplicate_confirmation: on True with a stashed
\* request the store's save is called with the stashed fields; the slot is
\* cleared in every case.  ret is the success value of the save (FALSE when
\* no save was called).
handle_duplicate_confirmation(tbl, ok, ts, pending, should_update) ==
    IF should_update /\ pending # None
    THEN LET s == save_weather_record(tbl, ok, ts, pending.location, pending.date_str,
                                      pending.temperature, pending.wind_speed,
                                      pending.wind_direction, pending.forecast)
         IN  [table |-> s.table,
              pending |-> None,
              ret |-> s.ret,
              writes |-> <<SaveCall(pending.location, pending.date_str, pending.temperature,
                                    pending.wind_speed, pending.wind_direction,
                                    pending.forecast)>>]
    ELSE [table |-> tbl, pending |-> None, ret |-> FALSE, writes |-> <<>>]

(***************************************************************************)
(* Initial state: WeatherDatabase() on an empty file, TemperatureDisplay() *)
(***************************************************************************)
\* save_selected is not running.
Idle == None

\* The days of a set in ascending order: the order of date_checkboxes.
RECURSIVE Ascending(_)
Ascending(days) ==
    IF days = {} THEN <<>>
    ELSE LET first == CHOOSE d \in days : \A e \in days : d <= e
         IN  <<first>> \o Ascending(days \ {first})

\* The table stays within the model's bound.
WithinRows(tbl) == BagCardinality(tbl) <= MaxRows

\* The main window takes input: no modal popup is open and no handler runs.
MainWindow == popups = <<>> /\ loop = Idle /\ view = None /\ save_popup = None

Init ==
    /\ table = EmptyBag
    /\ storageOK = TRUE
    /\ now = 0
    /\ pending_save_info = None
    /\ popups = <<>>
    /\ loop = Idle
    /\ view = None
    /\ file = None
    /\ connections = 1
    /\ scheduled = <<>>
    /\ display = [text |-> "", forecast_list |-> <<>>, requested |-> <<>>,
                  shown |-> <<>>, found |-> FALSE]
    /\ current_weather_data = None
    /\ current_weather_obj = None
    /\ save_popup = None
    /\ last = Call("init", None, None, <<>>)

(***************************************************************************)
(* The environment of the store.                                           *)
(***************************************************************************)
\* The storage medium becomes unavailable: operations raise sqlite3.Error.
StorageFault ==
    /\ storageOK
    /\ storageOK' = FALSE
    /\ UNCHANGED <<table, now, pending_save_info, popups, loop, last, view, file, connections, lookup>>

\* The storage medium is available again.
StorageRecover ==
    /\ ~storageOK
    /\ storageOK' = TRUE
    /\ UNCHANGED <<table, now, pending_save_info, popups, loop, last, view, file, connections, lookup>>

(***************************************************************************)
(* Operations of the application.                                          *)
(***************************************************************************)
\* "Save Selected" is pressed in a SaveRecordsPopup for a location and the
\* forecast period paired with the offered dates, with some dates ticked.
SaveSelectedBegin ==
    /\ MainWindow
    /\ \E location \in Locations, fc \in Forecasts, ticked \in SUBSET Days :
          loop' = [location |-> location, forecast |-> fc,
                   remaining |-> Ascending(ticked), selected_count |-> 0]
    /\ last' = Call("save_selected", None, None, <<>>)
    /\ UNCHANGED <<table, storageOK, now, pending_save_info, popups, view, file, connections, lookup>>

\* One iteration of the loop of save_selected: save_callback, that is
\* TemperatureDisplay.save_weather_record, for the next ticked date.
SaveSelectedStep ==
    /\ loop # Idle
    /\ loop.remaining # <<>>
    /\ LET date_str == DateStr(Head(loop.remaining))
       IN  \E existing_records \in get_records_by_location(table, storageOK, loop.location) :
             LET r == TemperatureDisplay_save_weather_record(table, storageOK, now,
                          pending_save_info, popups, existing_records,
                          loop.location, date_str, loop.forecast)
             IN  /\ WithinRows(r.table)
                 /\ table' = r.table
                 /\ pending_save_info' = r.pending
                 /\ popups' = r.popups
                 /\ loop' = [loop EXCEPT !.remaining = Tail(@),
                                         !.selected_count = IF r.ret THEN @ + 1 ELSE @]
                 /\ last' = Call("save_weather_record",
                                 PendingInfo(loop.location, date_str, loop.forecast),
                                 r.ret,
                                 r.writes)
    /\ UNCHANGED <<storageOK, now, view, file, connections, lookup>>

\* The loop of save_selected is over: the popup is dismissed (a success
\* popup is shown first when selected_count > 0).
SaveSelectedEnd ==
    /\ loop # Idle
    /\ loop.remaining = <<>>
    /\ loop' = Idle
    /\ last' = Call("save_selected_end", None, loop.selected_count, <<>>)
    /\ UNCHANGED <<table, storageOK, now, pending_save_info, popups, view, file, connections, lookup>>

\* A confirmation that carries the request of its own popup: on True it
\* saves that request, whatever pending_save_info holds.
ConfirmUpdate_saving_popup_request ==
    /\ loop = Idle
    /\ popups # <<>>
    /\ \E should_update \in BOOLEAN :
         LET request == popups[Len(popups)].request
             r == handle_duplicate_confirmation(table, storageOK, now,
                                                request, should_update)
         IN  /\ WithinRows(r.table)
             /\ table' = r.table
             /\ pending_save_info' = None
             /\ last' = Call("handle_duplicate_confirmation",
                             [should_update |-> should_update, popup |-> popups[Len(popups)]],
                             r.ret,
                             r.writes)
    /\ popups' = SubSeq(popups, 1, Len(popups) - 1)
    /\ UNCHANGED <<storageOK, now, loop, view, file, connections, lookup>>

\* "Update" or "Cancel" is pressed in a ConfirmUpdatePopup: confirm_update
\* calls handle_duplicate_confirmation and dismisses the popup.  The popups
\* are modal and stacked in the order they were opened, so the one that takes
\* the press is the last one opened.
ConfirmUpdate ==
    /\ loop = Idle
    /\ popups # <<>>
    /\ \E should_update \in BOOLEAN :
         LET r == handle_duplicate_confirmation(table, storageOK, now,
                                                pending_save_info, should_update)
         IN  /\ WithinRows(r.table)
             /\ table' = r.table
             /\ pending_save_info' = r.pending
             /\ last' = Call("handle_duplicate_confirmation",
                             [should_update |-> should_update, popup |-> popups[Len(popups)]],
                             r.ret,
                             r.writes)
    /\ popups' = SubSeq(popups, 1, Len(popups) - 1)
    /\ UNCHANGED <<storageOK, now, loop, view, file, connections, lookup>>

\* WeatherDatabase.delete_record(location, date_str).
DeleteRecord ==
    /\ MainWindow
    /\ \E location \in Locations, day \in Days :
         LET r == delete_record(table, storageOK, location, DateStr(day))
         IN  /\ table' = r.table
             /\ last' = Call("delete_record",
                             [ok |-> storageOK, location |-> location, date_str |-> DateStr(day)],
                             r.ret,
                             <<>>)
    /\ UNCHANGED <<storageOK, now, pending_save_info, popups, loop, view, file, connections, lookup>>

Next ==
    \/ SaveSelectedBegin
    \/ SaveSelectedStep
    \/ SaveSelectedEnd
    \/ ConfirmUpdate
    \/ DeleteRecord
    \/ StorageFault
    \/ StorageRecover

Spec == Init /\ [][Next]_vars

(***************************************************************************)
(* The store on its own: calls of the methods of WeatherDatabase.          *)
(***************************************************************************)
\* WeatherDatabase.save_weather_record(location, date_str, ...).  last.args
\* also keeps the rows the table held at the key before the call (before).
DbSaveAt(locations, forecasts) ==
    /\ \E location \in locations, day \in Days, fc \in forecasts :
         LET r == save_weather_record(table, storageOK, now, location, DateStr(day),
                                      fc.temperature, fc.wind_speed, fc.wind_direction,
                                      fc.forecast)
         IN  /\ WithinRows(r.table)
             /\ table' = r.table
             /\ last' = Call("db.save_weather_record",
                             [ok |-> storageOK, location |-> location, date_str |-> DateStr(day), fc |-> fc, before |-> RowsAt(table, location, DateStr(day))],
                             r.ret,
                             <<SaveCall(location, DateStr(day), fc.temperature, fc.wind_speed, fc.wind_direction, fc.forecast)>>)
    /\ UNCHANGED <<storageOK, now, pending_save_info, popups, loop, view, file, connections, lookup>>

\* WeatherDatabase.save_weather_record for any location of the model.
DbSave == DbSaveAt(Locations, Forecasts)

\* WeatherDatabase.get_all_records().
DbGetAll ==
    /\ last' = Call("get_all_records",
                    [ok |-> storageOK],
                    get_all_records(table, storageOK),
                    <<>>)
    /\ UNCHANGED <<table, storageOK, now, pending_save_info, popups, loop, view, file, connections, lookup>>

\* WeatherDatabase.get_records_by_location(location), the search string
\* drawn from search_strings.
DbGetByLocationOf(search_strings) ==
    /\ \E location \in search_strings :
         \E records \in get_records_by_location(table, storageOK, location) :
            last' = Call("get_records_by_location",
                         [ok |-> storageOK, location |-> location],
                         records,
                         <<>>)
    /\ UNCHANGED <<table, storageOK, now, pending_save_info, popups, loop, view, file, connections, lookup>>

\* WeatherDatabase.get_records_by_location for any search string of the model.
DbGetByLocation == DbGetByLocationOf(SearchStrings)

\* WeatherDatabase.get_record_count().
DbCount ==
    /\ last' = Call("get_record_count",
                    [ok |-> storageOK],
                    get_record_count(table, storageOK),
                    <<>>)
    /\ UNCHANGED <<table, storageOK, now, pending_save_info, popups, loop, view, file, connections, lookup>>

NextDB ==
    \/ DbSave
    \/ DeleteRecord
    \/ DbGetAll
    \/ DbGetByLocation
    \/ DbCount
    \/ StorageFault
    \/ StorageRecover

SpecDB == Init /\ [][NextDB]_vars

(***************************************************************************)
(* ViewRecordsPopup and BulkDeleteConfirmationPopup.                       *)
(***************************************************************************)
\* A call of a method of the store, as recorded in the history.
StoreCall(fn, location, date_str) == [fn |-> fn, location |-> location, date_str |-> date_str]

\* The records of a list at the ticked positions: get_selected_records.
RECURSIVE get_selected_records(_, _)
get_selected_records(records, ticked) ==
    IF records = <<>> THEN <<>>
    ELSE LET rest == get_selected_records(Tail(records), {i - 1 : i \in ticked \ {1}})
         IN  IF 1 \in ticked THEN <<Head(records)>> \o rest ELSE rest

\* The first loop of delete_selected_records: one delete_record per selected
\* record, the successes counted.
RECURSIVE DeleteEach(_, _, _)
DeleteEach(tbl, ok, selected_records) ==
    IF selected_records = <<>> THEN [table |-> tbl, success_count |-> 0, calls |-> <<>>]
    ELSE LET r    == Head(selected_records)
             d    == delete_record(tbl, ok, r.location, r.date)
             rest == DeleteEach(d.table, ok, Tail(selected_records))
         IN  [table |-> rest.table,
              success_count |-> (IF d.ret THEN 1 ELSE 0) + rest.success_count,
              calls |-> <<StoreCall("delete_record", r.location, r.date)>> \o rest.calls]

\* any(delete_record(r) for r in selected_records): the deletes are made in
\* turn until one returns True.
RECURSIVE AnyDelete(_, _, _)
AnyDelete(tbl, ok, selected_records) ==
    IF selected_records = <<>> THEN [table |-> tbl, calls |-> <<>>]
    ELSE LET r == Head(selected_records)
             d == delete_record(tbl, ok, r.location, r.date)
             c == <<StoreCall("delete_record", r.location, r.date)>>
         IN  IF d.ret THEN [table |-> d.table, calls |-> c]
             ELSE LET rest == AnyDelete(d.table, ok, Tail(selected_records))
                  IN  [table |-> rest.table, calls |-> c \o rest.calls]

\* The comprehension that computes deleted_keys: for each selected record the
\* any(...) above is evaluated once (todo runs over the selected records).
RECURSIVE DeletedKeysPass(_, _, _, _)
DeletedKeysPass(tbl, ok, todo, selected_records) ==
    IF todo = <<>> THEN [table |-> tbl, calls |-> <<>>]
    ELSE LET a    == AnyDelete(tbl, ok, selected_records)
             rest == DeletedKeysPass(a.table, ok, Tail(todo), selected_records)
         IN  [table |-> rest.table, calls |-> a.calls \o rest.calls]

\* What a ViewRecordsPopup holds: self.records, the selected records of its
\* open BulkDeleteConfirmationPopup (empty when there is none) and whether
\* record_checkboxes still holds the ticked checkboxes of an earlier list
\* (build_content clears the dictionary only when self.records is not empty).
ViewRecordsPopup(records, selected_records, leftover) == [records |-> records, selected_records |-> selected_records, leftover |-> leftover]

\* The popup that reports an outcome to the user.
Report(title, count) == [title |-> title, count |-> count]

\* The batch reports the number of selected records in place of success_count.
delete_selected_records_counting_selection(tbl, ok, vw, selected_records) ==
    LET first == DeleteEach(tbl, ok, selected_records)
    IN  [table |-> first.table,
         view |-> ViewRecordsPopup(get_all_records(first.table, ok), <<>>, FALSE),
         success_count |-> Len(selected_records),
         calls |-> first.calls \o <<StoreCall("get_all_records", None, None)>>,
         report |-> Report("Deleted", Len(selected_records))]

\* ViewRecordsPopup.delete_selected_records(selected_records), followed by the
\* dismissal of the confirmation popup that called it.
delete_selected_records(tbl, ok, vw, selected_records) ==
    LET first == DeleteEach(tbl, ok, selected_records)
    IN  IF first.success_count > 0
        THEN LET pass    == DeletedKeysPass(first.table, ok, selected_records, selected_records)
                 records == get_all_records(pass.table, ok)
             IN  [table |-> pass.table,
                  view |-> ViewRecordsPopup(records, <<>>, records = <<>>),
                  success_count |-> first.success_count,
                  calls |-> first.calls \o pass.calls
                              \o <<StoreCall("get_all_records", None, None)>>,
                  report |-> Report("Deleted", first.success_count)]
        ELSE [table |-> first.table,
              view |-> ViewRecordsPopup(vw.records, <<>>, vw.leftover),
              success_count |-> 0,
              calls |-> first.calls,
              report |-> Report("Error", None)]

\* confirm_delete_selected without the test for an empty selection.
confirm_delete_selected_unchecked(vw, selected_records) ==
    [view |-> ViewRecordsPopup(vw.records, selected_records, vw.leftover), report |-> Report("Confirm Bulk Delete", Len(selected_records))]

\* ViewRecordsPopup.confirm_delete_selected, for the selection that
\* get_selected_records returned.
confirm_delete_selected(vw, selected_records) ==
    IF selected_records = <<>>
    THEN [view |-> vw, report |-> Report("No Selection", None)]
    ELSE [view |-> ViewRecordsPopup(vw.records, selected_records, vw.leftover), report |-> Report("Confirm Bulk Delete", Len(selected_records))]

\* TemperatureDisplay.on_view_records: the list is fetched and shown.
OnViewRecords ==
    /\ MainWindow
    /\ view' = ViewRecordsPopup(get_all_records(table, storageOK), <<>>, FALSE)
    /\ last' = Call("on_view_records", [ok |-> storageOK], view'.records,
                    <<StoreCall("get_all_records", None, None)>>)
    /\ UNCHANGED <<table, storageOK, now, pending_save_info, popups, loop, file, connections, lookup>>

\* "Delete Selected" is pressed with some checkboxes ticked.  With ticked
\* checkboxes left over from a list that is no longer shown,
\* get_selected_records indexes self.records out of range and raises.
ConfirmDeleteSelected ==
    /\ view # None
    /\ view.selected_records = <<>>
    /\ IF view.leftover
       THEN /\ view' = view
            /\ last' = Call("confirm_delete_selected", [selected_records |-> <<>>],
                            Report("IndexError", None), <<>>)
       ELSE \E ticked \in SUBSET (1..Len(view.records)) :
              LET selected_records == get_selected_records(view.records, ticked)
                  r == confirm_delete_selected(view, selected_records)
              IN  /\ view' = r.view
                  /\ last' = Call("confirm_delete_selected",
                                  [selected_records |-> selected_records],
                                  r.report, <<>>)
    /\ UNCHANGED <<table, storageOK, now, pending_save_info, popups, loop, file, connections, lookup>>

\* "Delete All" is pressed in the BulkDeleteConfirmationPopup: confirm_delete
\* calls delete_selected_records and dismisses the popup.
ConfirmDelete ==
    /\ view # None
    /\ view.selected_records # <<>>
    /\ LET r == delete_selected_records(table, storageOK, view, view.selected_records)
       IN  /\ table' = r.table
           /\ view' = r.view
           /\ last' = Call("delete_selected_records",
                           [ok |-> storageOK, selected_records |-> view.selected_records],
                           [success_count |-> r.success_count, report |-> r.report],
                           r.calls)
    /\ UNCHANGED <<storageOK, now, pending_save_info, popups, loop, file, connections, lookup>>

\* "Cancel" is pressed in the BulkDeleteConfirmationPopup.
CancelDelete ==
    /\ view # None
    /\ view.selected_records # <<>>
    /\ view' = ViewRecordsPopup(view.records, <<>>, view.leftover)
    /\ last' = Call("cancel_delete", None, None, <<>>)
    /\ UNCHANGED <<table, storageOK, now, pending_save_info, popups, loop, file, connections, lookup>>

\* The ViewRecordsPopup is dismissed: "Close" is pressed, or the dismissal
\* scheduled after a successful batch fires.
ViewDismiss ==
    /\ view # None
    /\ view.selected_records = <<>>
    /\ view' = None
    /\ last' = Call("dismiss", None, None, <<>>)
    /\ UNCHANGED <<table, storageOK, now, pending_save_info, popups, loop, file, connections, lookup>>

\* A record is committed from the main window (the save workflow above, taken
\* as one step): a save on the store with the storage working.
SaveRecord ==
    /\ MainWindow
    /\ storageOK
    /\ \E location \in Locations, day \in Days :
         LET fc == CHOOSE f \in Forecasts : f.temperature = 72
             r  == save_weather_record(table, TRUE, now, location, DateStr(day),
                                       fc.temperature, fc.wind_speed, fc.wind_direction,
                                       fc.forecast)
         IN  /\ WithinRows(r.table)
             /\ table' = r.table
    /\ table' # table
    /\ UNCHANGED <<storageOK, now, pending_save_info, popups, loop, view, last, file, connections, lookup>>

\* Another user of the database file deletes a record (weather_records.db is
\* shared by every WeatherDatabase opened on it).
OtherDelete ==
    /\ storageOK
    /\ \E location \in Locations, day \in Days :
         table' = delete_record(table, TRUE, location, DateStr(day)).table
    /\ table' # table
    /\ UNCHANGED <<storageOK, now, pending_save_info, popups, loop, view, last, file, connections, lookup>>

NextView ==
    \/ OnViewRecords
    \/ ConfirmDeleteSelected
    \/ ConfirmDelete
    \/ CancelDelete
    \/ ViewDismiss
    \/ SaveRecord
    \/ OtherDelete
    \/ StorageFault
    \/ StorageRecover

SpecView == Init /\ [][NextView]_vars

(***************************************************************************)
(* The store under a running clock: created_at.                            *)
(***************************************************************************)
\* A second passes: CURRENT_TIMESTAMP advances.
Tick ==
    /\ now < MaxClock
    /\ now' = now + 1
    /\ UNCHANGED <<table, storageOK, pending_save_info, popups, loop, view, last, file, connections, lookup>>

\* WeatherDatabase.save_weather_record for one location, at the current time.
ClockSave == DbSaveAt({<<"a">>}, Forecasts)

NextClock ==
    \/ ClockSave
    \/ Tick

SpecClock == Init /\ [][NextClock]_vars

(***************************************************************************)
(* Export of the records to weather_records.xml.                           *)
(***************************************************************************)
\* Texts are sequences of characters; the empty text is <<>>.
StartsWith(text, prefix) ==
    /\ Len(text) >= Len(prefix)
    /\ SubSeq(text, 1, Len(prefix)) = prefix

\* str(n) of a natural number: its decimal digits.
RECURSIVE NatStr(_)
NatStr(n) ==
    IF n < 10 THEN <<Digit(n)>> ELSE NatStr(n \div 10) \o <<Digit(n % 10)>>

\* str(n) of an int: a minus sign before the digits of a negative number.
str(n) == IF n < 0 THEN <<"-">> \o NatStr(0 - n) ELSE NatStr(n)

\* The text sqlite3 returns for created_at.  The timestamps of the model lie
\* in one minute, so the text is its last part, ":SS".
Timestamp(created_at) ==
    <<":", Digit(created_at \div 10), Digit(created_at % 10)>>

\* ElementTree writes character data with &, < and > replaced by entities.
RECURSIVE escape_cdata(_)
escape_cdata(text) ==
    IF text = <<>> THEN <<>>
    ELSE (CASE Head(text) = "&" -> <<"&", "a", "m", "p", ";">>
            [] Head(text) = "<" -> <<"&", "l", "t", ";">>
            [] Head(text) = ">" -> <<"&", "g", "t", ";">>
            [] OTHER -> <<Head(text)>>) \o escape_cdata(Tail(text))

\* An XML parser reads character data: the entities stand for characters.
RECURSIVE CharacterData(_)
CharacterData(data) ==
    IF data = <<>> THEN <<>>
    ELSE IF StartsWith(data, <<"&", "a", "m", "p", ";">>)
         THEN <<"&">> \o CharacterData(SubSeq(data, 6, Len(data)))
    ELSE IF StartsWith(data, <<"&", "l", "t", ";">>)
         THEN <<"<">> \o CharacterData(SubSeq(data, 5, Len(data)))
    ELSE IF StartsWith(data, <<"&", "g", "t", ";">>)
         THEN <<">">> \o CharacterData(SubSeq(data, 5, Len(data)))
    ELSE IF StartsWith(data, <<"&", "q", "u", "o", "t", ";">>)
         THEN <<"\"">> \o CharacterData(SubSeq(data, 7, Len(data)))
    ELSE <<Head(data)>> \o CharacterData(Tail(data))

\* minidom writes character data with &, <, > and " replaced by entities.
RECURSIVE write_data(_)
write_data(text) ==
    IF text = <<>> THEN <<>>
    ELSE (CASE Head(text) = "&" -> <<"&", "a", "m", "p", ";">>
            [] Head(text) = "<" -> <<"&", "l", "t", ";">>
            [] Head(text) = ">" -> <<"&", "g", "t", ";">>
            [] Head(text) = "\"" -> <<"&", "q", "u", "o", "t", ";">>
            [] OTHER -> <<Head(text)>>) \o write_data(Tail(text))

\* ET.tostring of a leaf element: the pieces of character data between its
\* tags.  An element whose text is empty is written as an empty-element tag,
\* with no character data at all.
tostring(text) == IF text = <<>> THEN <<>> ELSE <<escape_cdata(text)>>

\* minidom.parseString of a leaf element: one text node for each piece of
\* character data.
parseString(data) == [i \in 1 .. Len(data) |-> CharacterData(data[i])]

\* toprettyxml of a leaf element: its text nodes written out, on one line
\* with the tags; an element without text nodes is an empty-element tag.
toprettyxml(nodes) == [i \in 1 .. Len(nodes) |-> write_data(nodes[i])]

\* ET.SubElement(record_elem, tag).text = text, as it stands in the file.
SubElement(tag, text) ==
    [tag |-> tag, data |-> toprettyxml(parseString(tostring(text)))]

\* The weather_record element of one record: seven leaves in a fixed order.
RecordElement(record) ==
    [tag |-> "weather_record",
     children |-> << SubElement("location", record.location),
                     SubElement("date", record.date),
                     SubElement("temperature", str(record.temperature)),
                     SubElement("wind_speed", record.wind_speed),
                     SubElement("wind_direction", record.wind_direction),
                     SubElement("forecast", record.forecast),
                     SubElement("created_at", Timestamp(record.created_at)) >>]

\* The root lists the records back to front.
Document_reversed(records, export_date) ==
    [tag |-> "weather_records",
     export_date |-> export_date,
     total_records |-> str(Len(records)),
     children |-> [i \in 1 .. Len(records) |->
                     RecordElement(records[Len(records) + 1 - i])]]

\* The root element weather_records with its attributes and one child for
\* each record of the list, in the order of the list.
Document(records, export_date) ==
    [tag |-> "weather_records",
     export_date |-> export_date,
     total_records |-> str(Len(records)),
     children |-> [i \in 1 .. Len(records) |-> RecordElement(records[i])]]

\* weather_records.xml as it is on disk: whether the declaration line is
\* there, and the root element if the text after it is.
File(declaration, body) == [declaration |-> declaration, body |-> body]

\* Where export_records_to_xml may be interrupted by an exception: nowhere,
\* while it builds the text, in open(), in the first or the second write,
\* or when the file is flushed and closed on leaving the with block.
ExportFaults == {"none", "build", "open", "declaration", "body", "close"}

\* The export reports success whatever happened.
export_records_to_xml_always_true(records, export_date, current, fault) ==
    LET root == Document(records, export_date)
    IN  [ret |-> TRUE,
         files |-> CASE fault = "none" -> {File(TRUE, <<root>>)}
                     [] fault \in {"build", "open"} -> {current}
                     [] fault = "declaration" -> {File(FALSE, <<>>)}
                     [] fault = "body" -> {File(FALSE, <<>>), File(TRUE, <<>>)}
                     [] fault = "close" -> {File(FALSE, <<>>), File(TRUE, <<>>),
                                            File(TRUE, <<root>>)}]

\* TemperatureDisplay.export_records_to_xml(records): the value returned and
\* the states the file can be in afterwards.  open() for writing empties
\* the file; written text is buffered, so after an exception in a write or in
\* the close any part written before it may or may not have reached the disk.
export_records_to_xml(records, export_date, current, fault) ==
    LET root == Document(records, export_date)
    IN  [ret |-> fault = "none",
         files |-> CASE fault = "none" -> {File(TRUE, <<root>>)}
                     [] fault \in {"build", "open"} -> {current}
                     [] fault = "declaration" -> {File(FALSE, <<>>)}
                     [] fault = "body" -> {File(FALSE, <<>>), File(TRUE, <<>>)}
                     [] fault = "close" -> {File(FALSE, <<>>), File(TRUE, <<>>),
                                            File(TRUE, <<root>>)}]

\* The location of the exported records: it holds a character that XML
\* writes as an entity.
ExportLocations == {<<"a", "&">>}

\* The values of the exported records: a temperature below zero with a
\* forecast of the empty text, and a forecast holding markup characters.
ExportForecasts ==
    { [temperature |-> 0 - 5, wind_speed |-> <<"5">>, wind_direction |-> <<"N">>,
       forecast |-> <<>>],
      [temperature |-> 72, wind_speed |-> <<"1", "0">>, wind_direction |-> <<"N", "W">>,
       forecast |-> <<"<", "a", ">", "\"">>] }

\* WeatherDatabase.save_weather_record of a record to export.
ExportSave == DbSaveAt(ExportLocations, ExportForecasts)

\* TemperatureDisplay.on_export_records: the Export button.  The popup it
\* opens is kept in last.ret.report.
OnExportRecords ==
    /\ MainWindow
    /\ \E fault \in ExportFaults :
         LET records == get_all_records(table, storageOK)
             r == export_records_to_xml(records, now, file, fault)
         IN  IF records = <<>>
             THEN /\ fault = "none"
                  /\ file' = file
                  /\ last' = Call("on_export_records",
                                  [ok |-> storageOK, records |-> records, fault |-> fault],
                                  [exported |-> FALSE, success |-> FALSE,
                                   report |-> Report("No Records", None)],
                                  <<>>)
             ELSE /\ file' \in r.files
                  /\ last' = Call("on_export_records",
                                  [ok |-> storageOK, records |-> records, fault |-> fault],
                                  [exported |-> TRUE, success |-> r.ret,
                                   report |-> IF r.ret
                                              THEN Report("Export Successful", Len(records))
                                              ELSE Report("Export Failed", None)],
                                  <<>>)
    /\ UNCHANGED <<table, storageOK, now, pending_save_info, popups, loop, view, connections, lookup>>

NextExport ==
    \/ ExportSave
    \/ OnExportRecords
    \/ StorageFault
    \/ StorageRecover

SpecExport == Init /\ [][NextExport]_vars

(***************************************************************************)
(* The connections of the store, and init_database.                        *)
(***************************************************************************)
\* The numbers of connections a method of WeatherDatabase can open:
\* sqlite3.connect opens one; when the storage is faulty, the fault is met
\* either in connect (nothing is opened) or in a statement after it.
Opened(ok) == IF ok THEN {1} ELSE {0, 1}

\* `with sqlite3.connect(self.db_path) as conn:` followed by the return of
\* the method.  Leaving the with block commits or rolls back the transaction
\* and does not close the connection, and no method calls conn.close().  The
\* connection and the cursor made from it are unreachable after the return,
\* and stay open until the interpreter's garbage collector finalises them.
WithConnection(opened) ==
    /\ connections + opened <= MaxConnections
    /\ connections' = connections + opened

\* The garbage collector runs: the unreachable connections are closed.
Collect ==
    /\ connections > 0
    /\ connections' = 0
    /\ UNCHANGED <<table, storageOK, now, pending_save_info, popups, loop, view, file, lookup, last>>

\* The operation before this one and whether it met a storage fault.
Before(call) ==
    [op |-> call.op, failed |-> call.op # "init" /\ ~call.args.ok]

\* init_database drops the table and creates it again.
init_database_recreating(tbl, ok) ==
    [table |-> IF ok THEN EmptyBag ELSE tbl, raised |-> FALSE]

\* WeatherDatabase.init_database: CREATE TABLE IF NOT EXISTS changes no row
\* of a table that exists; sqlite3.Error is caught and nothing is raised.
init_database(tbl, ok) == [table |-> tbl, raised |-> FALSE]

\* WeatherDatabase.init_database(), called again.
InitDatabase ==
    /\ \E opened \in Opened(storageOK) :
         LET r == init_database(table, storageOK)
         IN  /\ WithConnection(opened)
             /\ table' = r.table
             /\ last' = Call("db.init_database",
                             [ok |-> storageOK, opened |-> opened, prev |-> Before(last)],
                             [raised |-> r.raised],
                             <<>>)
    /\ UNCHANGED <<storageOK, now, pending_save_info, popups, loop, view, file, lookup>>

\* WeatherDatabase.save_weather_record(location, date_str, ...).
ConnSave ==
    /\ \E day \in Days, fc \in Forecasts, opened \in Opened(storageOK) :
         LET r == save_weather_record(table, storageOK, now, <<"a">>, DateStr(day),
                                      fc.temperature, fc.wind_speed, fc.wind_direction,
                                      fc.forecast)
         IN  /\ WithinRows(r.table)
             /\ WithConnection(opened)
             /\ table' = r.table
             /\ last' = Call("db.save_weather_record",
                             [ok |-> storageOK, opened |-> opened, prev |-> Before(last)],
                             r.ret,
                             <<>>)
    /\ UNCHANGED <<storageOK, now, pending_save_info, popups, loop, view, file, lookup>>

\* WeatherDatabase.delete_record(location, date_str).
ConnDelete ==
    /\ \E day \in Days, opened \in Opened(storageOK) :
         LET r == delete_record(table, storageOK, <<"a">>, DateStr(day))
         IN  /\ WithConnection(opened)
             /\ table' = r.table
             /\ last' = Call("db.delete_record",
                             [ok |-> storageOK, opened |-> opened, prev |-> Before(last)],
                             r.ret,
                             <<>>)
    /\ UNCHANGED <<storageOK, now, pending_save_info, popups, loop, view, file, lookup>>

\* WeatherDatabase.get_all_records().
ConnGetAll ==
    /\ \E opened \in Opened(storageOK) :
         /\ WithConnection(opened)
         /\ last' = Call("db.get_all_records",
                         [ok |-> storageOK, opened |-> opened, prev |-> Before(last)],
                         get_all_records(table, storageOK),
                         <<>>)
    /\ UNCHANGED <<table, storageOK, now, pending_save_info, popups, loop, view, file, lookup>>

\* WeatherDatabase.get_records_by_location(location).
ConnGetByLocation ==
    /\ \E opened \in Opened(storageOK) :
         \E records \in get_records_by_location(table, storageOK, <<"a">>) :
            /\ WithConnection(opened)
            /\ last' = Call("db.get_records_by_location",
                            [ok |-> storageOK, opened |-> opened, prev |-> Before(last)],
                            records,
                            <<>>)
    /\ UNCHANGED <<table, storageOK, now, pending_save_info, popups, loop, view, file, lookup>>

\* WeatherDatabase.get_record_count().
ConnCount ==
    /\ \E opened \in Opened(storageOK) :
         /\ WithConnection(opened)
         /\ last' = Call("db.get_record_count",
                         [ok |-> storageOK, opened |-> opened, prev |-> Before(last)],
                         get_record_count(table, storageOK),
                         <<>>)
    /\ UNCHANGED <<table, storageOK, now, pending_save_info, popups, loop, view, file, lookup>>

NextConn ==
    \/ InitDatabase
    \/ ConnSave
    \/ ConnDelete
    \/ ConnGetAll
    \/ ConnGetByLocation
    \/ ConnCount
    \/ Collect
    \/ StorageFault
    \/ StorageRecover

SpecConn == Init /\ [][NextConn]_vars

(***************************************************************************)
(* The weather lookup: src/weather.py and fetch_weather_data.              *)
(***************************************************************************)
\* A Python list held in a field that can also be None.
List(items) == [list |-> items]

\* `not x` for a field that holds None or a list.
Falsy(x) == x = None \/ x.list = <<>>

\* A period of the forecast as api.weather.gov gives it.
Period(name, temperature, isDaytime, windSpeed, windDirection, precipitation, shortForecast) ==
    [name |-> name, temperature |-> temperature, isDaytime |-> isDaytime,
     windSpeed |-> windSpeed, windDirection |-> windDirection,
     probabilityOfPrecipitation |-> precipitation, shortForecast |-> shortForecast]

\* The periods of the model; their texts are sequences of characters.
Today == Period(<<"T">>, 70, TRUE, <<"8">>, <<"W">>, 0, <<"M">>)
Tuesday == Period(<<"T", "u">>, 72, TRUE, <<"1", "0">>, <<"N", "W">>, 20, <<"S">>)
TuesdayNight == Period(<<"T", "n">>, 55, FALSE, <<"3">>, <<"S">>, 40, <<"C">>)
Wednesday == Period(<<"W">>, 75, TRUE, <<"5">>, <<"N">>, 10, <<"C", "l">>)

\* The answer to one GET: a RequestException, or a list of periods.
Fail == [status |-> "fail", periods |-> <<>>]
Periods(periods) == [status |-> "ok", periods |-> periods]

\* The answers the forecast URL gives: to the first GET and to a second one.
ForecastAnswers ==
    { <<first, Fail>> : first \in { Periods(<<Today>>),
                                    Periods(<<Today, TuesdayNight>>),
                                    Periods(<<Today, TuesdayNight, Tuesday, Wednesday>>),
                                    Periods(<<Today, Wednesday, TuesdayNight>>) } }
    \cup { <<first, second>> : first \in {Fail, Periods(<<>>)},
                               second \in {Fail, Periods(<<Today, Tuesday>>)} }

\* The answers the hourly forecast URL gives.
HourlyAnswers ==
    { <<Periods(<<Today>>), Fail>> }
    \cup { <<first, second>> : first \in {Fail, Periods(<<>>)},
                               second \in {Fail, Periods(<<Today>>)} }

\* What the services outside the program answer to one lookup: the
\* geocoding of the input, the grid point, the two forecast URLs.  The
\* answers of one URL are varied while the other one answers at once.
Nets ==
    { [coordinates |-> "none", points |-> "fail", forecast |-> <<Fail, Fail>>,
       hourly |-> <<Fail, Fail>>],
      [coordinates |-> "found", points |-> "fail", forecast |-> <<Fail, Fail>>,
       hourly |-> <<Fail, Fail>>],
      [coordinates |-> "found", points |-> "nocity",
       forecast |-> <<Periods(<<Today, Wednesday, TuesdayNight>>), Fail>>,
       hourly |-> <<Periods(<<Today>>), Fail>>] }
    \cup [coordinates : {"found"}, points : {"ok"},
          forecast : ForecastAnswers, hourly : {<<Periods(<<Today>>), Fail>>}]
    \cup [coordinates : {"found"}, points : {"ok"},
          forecast : {<<Periods(<<Today, TuesdayNight, Tuesday, Wednesday>>), Fail>>},
          hourly : HourlyAnswers]

\* Weather.__init__ and Weather.update: the grid point gives the two URLs and
\* the city and state ("" stands for None); _update_forecast and
\* _update_hourly_forecast store the periods, or None on a RequestException.
\* A RequestException of the grid point leaves the URLs None.
Weather(latitude, net) ==
    IF net.points = "fail"
    THEN [latitude |-> latitude, forecast_url |-> FALSE, hourly_forecast_url |-> FALSE,
          forecast_data |-> None, hourly_forecast_data |-> None,
          current_city |-> <<>>, current_state |-> <<>>]
    ELSE [latitude |-> latitude, forecast_url |-> TRUE, hourly_forecast_url |-> TRUE,
          forecast_data |-> IF net.forecast[1].status = "ok"
                            THEN List(net.forecast[1].periods) ELSE None,
          hourly_forecast_data |-> IF net.hourly[1].status = "ok"
                                   THEN List(net.hourly[1].periods) ELSE None,
          current_city |-> IF net.points = "ok" THEN <<"a">> ELSE <<>>,
          current_state |-> IF net.points = "ok" THEN <<"b">> ELSE <<>>]

\* Weather._update_hourly_forecast, called again by get_current_forecast:
\* without a URL it calls self._update(), which does not exist
\* (AttributeError); with one it stores the answer to a second GET.
update_hourly_forecast(weather, net) ==
    IF ~weather.hourly_forecast_url
    THEN [raised |-> TRUE, weather |-> weather]
    ELSE [raised |-> FALSE,
          weather |-> [weather EXCEPT !.hourly_forecast_data =
                         IF net.hourly[2].status = "ok"
                         THEN List(net.hourly[2].periods) ELSE None]]

\* Weather._update_forecast, called again by get_future_forecast.
update_forecast(weather, net) ==
    IF ~weather.forecast_url
    THEN [raised |-> TRUE, weather |-> weather]
    ELSE [raised |-> FALSE,
          weather |-> [weather EXCEPT !.forecast_data =
                         IF net.forecast[2].status = "ok"
                         THEN List(net.forecast[2].periods) ELSE None]]

\* The dict get_current_forecast and get_future_forecast make of a period.
ForecastDict(period) ==
    [name |-> period.name, temperature |-> period.temperature,
     daytime |-> period.isDaytime, wind_speed |-> period.windSpeed,
     wind_direction |-> period.windDirection,
     precipitation_probability |-> period.probabilityOfPrecipitation,
     forecast |-> period.shortForecast]

\* Weather.get_current_forecast: the first hourly period, or None (current
\* is then <<>>) when there is no hourly data after a second try.
get_current_forecast(weather, net) ==
    LET again == IF Falsy(weather.hourly_forecast_data)
                 THEN update_hourly_forecast(weather, net)
                 ELSE [raised |-> FALSE, weather |-> weather]
        data == again.weather.hourly_forecast_data
    IN  [raised |-> again.raised,
         weather |-> again.weather,
         current |-> IF again.raised \/ Falsy(data) THEN <<>>
                     ELSE <<ForecastDict(data.list[1])>>]

\* list(Weather.get_future_forecast()): the periods after the first, or
\* nothing when there is no forecast data after a second try.
get_future_forecast(weather, net) ==
    LET again == IF Falsy(weather.forecast_data)
                 THEN update_forecast(weather, net)
                 ELSE [raised |-> FALSE, weather |-> weather]
        data == again.weather.forecast_data
    IN  [raised |-> again.raised,
         weather |-> again.weather,
         future_list |-> IF again.raised \/ Falsy(data) THEN <<>>
                         ELSE [i \in 1 .. Len(data.list) - 1 |-> ForecastDict(data.list[i + 1])]]

\* What fetch_weather_data returns when it found nothing.
NotFound == [current |-> <<>>, future_list |-> <<>>, weather_obj |-> None]

\* fetch_weather_data(zip_code): current is <<>> for None and <<dict>>
\* otherwise.  The geocoding functions return None for an input they do not
\* find, which the unpacking into latitude, longitude turns into a
\* TypeError; str(weather) reads forecast_data[0] and raises when there is no
\* forecast data.  Every exception ends in the except branch.
fetch_weather_data(zip_code, net) ==
    IF net.coordinates = "none" THEN NotFound
    ELSE LET weather == Weather(zip_code, net)
             c == get_current_forecast(weather, net)
             f == get_future_forecast(c.weather, net)
         IN  IF c.raised \/ f.raised \/ Falsy(f.weather.forecast_data)
             THEN NotFound
             ELSE [current |-> c.current, future_list |-> f.future_list,
                   weather_obj |-> f.weather]

(***************************************************************************)
(* TemperatureDisplay: Get Weather and Save Records.                       *)
(***************************************************************************)
\* The inputs typed into the ZIP code field.
ZipCodes == {<<"1">>, <<"2">>}

\* What the display shows.  requested and shown are not widgets: they name
\* the input of the latest on_fetch_weather and the input whose answer the
\* widgets show; found tells that some lookup has shown a forecast.
Display(text, forecast_list, requested, shown, found) ==
    [text |-> text, forecast_list |-> forecast_list, requested |-> requested,
     shown |-> shown, found |-> found]

\* Clock runs the most recently scheduled callback first.
NextCallback_newest_first(callbacks) == Len(callbacks)

\* Clock runs the callbacks scheduled for the same frame in the order in
\* which they were scheduled: the position of the next one to run.
NextCallback(callbacks) == 1

\* A _fetch_and_update that leaves the held forecast data on a failed lookup.
fetch_and_update_keeping_data(zip_code, net, shows, data, obj) ==
    LET r == fetch_weather_data(zip_code, net)
    IN  IF r.current # <<>>
        THEN [display |-> Display("temperature", r.future_list, shows.requested, zip_code, TRUE),
              current_weather_data |-> List(r.future_list),
              current_weather_obj |-> r.weather_obj,
              raised |-> FALSE]
        ELSE [display |-> Display("Not found", <<>>, shows.requested, zip_code, shows.found),
              current_weather_data |-> data,
              current_weather_obj |-> obj,
              raised |-> FALSE]

\* TemperatureDisplay._fetch_and_update(zip_code): with a current forecast
\* the widgets show it and the future list, and both are kept for saving;
\* without one the widgets show "Not found" and the kept data is cleared.
fetch_and_update(zip_code, net, shows, data, obj) ==
    LET r == fetch_weather_data(zip_code, net)
    IN  IF r.current # <<>>
        THEN [display |-> Display("temperature", r.future_list, shows.requested, zip_code, TRUE),
              current_weather_data |-> List(r.future_list),
              current_weather_obj |-> r.weather_obj,
              raised |-> FALSE]
        ELSE [display |-> Display("Not found", <<>>, shows.requested, zip_code, shows.found),
              current_weather_data |-> None,
              current_weather_obj |-> None,
              raised |-> FALSE]

\* TemperatureDisplay.on_fetch_weather(zip_code): "Get Weather" is pressed
\* with one of the given inputs in the ZIP code field.
OnFetchWeatherOf(zip_codes) ==
    /\ MainWindow
    /\ Len(scheduled) < MaxScheduled
    /\ \E zip_code \in zip_codes :
         /\ scheduled' = Append(scheduled, zip_code)
         /\ display' = Display("Fetching...", <<>>, zip_code, display.shown, display.found)
         /\ last' = Call("on_fetch_weather", [zip_code |-> zip_code], None, <<>>)
    /\ UNCHANGED <<table, storageOK, now, pending_save_info, popups, loop, view, file, connections, current_weather_data, current_weather_obj, save_popup>>

\* Clock runs a scheduled callback: _fetch_and_update(zip_code), with the
\* services answering in one of the given ways.
FetchAndUpdateOf(nets) ==
    /\ loop = Idle
    /\ scheduled # <<>>
    /\ LET k == NextCallback(scheduled)
       IN  \E net \in nets :
             LET r == fetch_and_update(scheduled[k], net, display,
                                       current_weather_data, current_weather_obj)
             IN  /\ display' = r.display
                 /\ current_weather_data' = r.current_weather_data
                 /\ current_weather_obj' = r.current_weather_obj
                 /\ scheduled' = SubSeq(scheduled, 1, k - 1) \o SubSeq(scheduled, k + 1, Len(scheduled))
                 /\ last' = Call("_fetch_and_update",
                                 [zip_code |-> scheduled[k], net |-> net],
                                 [raised |-> r.raised],
                                 <<>>)
    /\ UNCHANGED <<table, storageOK, now, pending_save_info, popups, loop, view, file, connections, save_popup>>

\* The text "Unknown Location".
UnknownLocation == <<"U">>

\* The location text on_save_records makes of the weather object.
LocationOf(weather_obj) ==
    IF weather_obj.current_city # <<>> /\ weather_obj.current_state # <<>>
    THEN weather_obj.current_city \o <<",", " ">> \o weather_obj.current_state
    ELSE UnknownLocation

\* Each offered date is paired with the daytime forecast of its own day: the
\* date i days from today with the (i+1)-th daytime forecast of the list.
matching_forecast_of_day(weather_data, i) ==
    LET daytime == SelectSeq(weather_data, LAMBDA forecast : forecast.daytime)
    IN  IF Len(daytime) > i THEN <<daytime[i + 1]>> ELSE <<>>

\* The search for matching_forecast in SaveRecordsPopup.__init__, for the
\* date i days from today: the first forecast of the list whose daytime is
\* true, whatever i is; <<>> when there is none.
matching_forecast(weather_data, i) ==
    LET daytime == SelectSeq(weather_data, LAMBDA forecast : forecast.daytime)
    IN  IF daytime # <<>> THEN <<daytime[1]>> ELSE <<>>

\* SaveRecordsPopup.__init__: date_checkboxes, in the order of insertion,
\* holds an entry for each of the offered dates that has a matching forecast.
RECURSIVE date_checkboxes(_, _)
date_checkboxes(weather_data, i) ==
    IF i >= MaxDays THEN <<>>
    ELSE LET match == matching_forecast(weather_data, i)
         IN  (IF match # <<>>
              THEN <<[date_str |-> DateStr(9 + i), forecast |-> match[1]]>>
              ELSE <<>>) \o date_checkboxes(weather_data, i + 1)

SaveRecordsPopup(weather_data, location) ==
    [weather_data |-> weather_data, location |-> location,
     date_checkboxes |-> date_checkboxes(weather_data, 0)]

\* The wind fields are passed in each other's place.
Candidate_swapping_wind(location, date_str, forecast) ==
    [location |-> location, date_str |-> date_str,
     temperature |-> forecast.temperature, wind_speed |-> forecast.wind_direction,
     wind_direction |-> forecast.wind_speed, forecast |-> forecast.forecast]

\* The arguments save_selected hands to save_callback for a ticked date.
Candidate(location, date_str, forecast) ==
    [location |-> location, date_str |-> date_str,
     temperature |-> forecast.temperature, wind_speed |-> forecast.wind_speed,
     wind_direction |-> forecast.wind_direction, forecast |-> forecast.forecast]

\* The loop of save_selected over the ticked entries: save_callback, that is
\* TemperatureDisplay.save_weather_record, for each in turn.  Whether that
\* finds a duplicate depends on which records get_records_by_location
\* returns and not on their order, so one of the possible orders is taken.
RECURSIVE SaveEach(_, _, _, _, _, _, _)
SaveEach(tbl, ok, ts, pending, open, location, entries) ==
    IF entries = <<>>
    THEN [table |-> tbl, pending |-> pending, popups |-> open, selected_count |-> 0,
          writes |-> <<>>, candidates |-> <<>>, duplicates |-> <<>>]
    ELSE LET entry == Head(entries)
             candidate == Candidate(location, entry.date_str, entry.forecast)
             existing_records == CHOOSE records \in get_records_by_location(tbl, ok, location) : TRUE
             r == TemperatureDisplay_save_weather_record(tbl, ok, ts, pending, open,
                      existing_records, location, entry.date_str, candidate)
             rest == SaveEach(r.table, ok, ts, r.pending, r.popups, location, Tail(entries))
         IN  [table |-> rest.table, pending |-> rest.pending, popups |-> rest.popups,
              selected_count |-> (IF r.ret THEN 1 ELSE 0) + rest.selected_count,
              writes |-> r.writes \o rest.writes,
              candidates |-> <<candidate>> \o rest.candidates,
              duplicates |-> <<Len(r.popups) > Len(open)>> \o rest.duplicates]

\* The entries of date_checkboxes at the ticked positions, in order.
Ticked(entries, ticked) ==
    SelectSeq([i \in 1 .. Len(entries) |-> [at |-> i, entry |-> entries[i]]],
              LAMBDA e : e.at \in ticked)

\* The test of on_save_records made with "is None": an empty forecast list is
\* taken for forecast data.
OnSaveRecords_accepting_empty_list ==
    /\ MainWindow
    /\ IF current_weather_data = None \/ current_weather_obj = None
       THEN /\ save_popup' = save_popup
            /\ last' = Call("on_save_records",
                            [current_weather_data |-> current_weather_data],
                            [accepted |-> FALSE, report |-> Report("Error", None)],
                            <<>>)
       ELSE /\ save_popup' = SaveRecordsPopup(current_weather_data.list,
                                              LocationOf(current_weather_obj))
            /\ last' = Call("on_save_records",
                            [current_weather_data |-> current_weather_data],
                            [accepted |-> TRUE, report |-> None],
                            <<>>)
    /\ UNCHANGED <<table, storageOK, now, pending_save_info, popups, loop, view, file, connections, scheduled, display, current_weather_data, current_weather_obj>>

\* TemperatureDisplay.on_save_records: "Save Records" is pressed.  Without
\* forecast data or weather object an "Error" popup is shown; otherwise a
\* SaveRecordsPopup is opened on the kept forecast list.
OnSaveRecords ==
    /\ MainWindow
    /\ IF Falsy(current_weather_data) \/ current_weather_obj = None
       THEN /\ save_popup' = save_popup
            /\ last' = Call("on_save_records",
                            [current_weather_data |-> current_weather_data],
                            [accepted |-> FALSE, report |-> Report("Error", None)],
                            <<>>)
       ELSE /\ save_popup' = SaveRecordsPopup(current_weather_data.list,
                                              LocationOf(current_weather_obj))
            /\ last' = Call("on_save_records",
                            [current_weather_data |-> current_weather_data],
                            [accepted |-> TRUE, report |-> None],
                            <<>>)
    /\ UNCHANGED <<table, storageOK, now, pending_save_info, popups, loop, view, file, connections, scheduled, display, current_weather_data, current_weather_obj>>

\* SaveRecordsPopup.save_selected: "Save Selected" is pressed with some of
\* the checkboxes ticked; the popup is dismissed at the end.
PopupSaveSelected ==
    /\ save_popup # None
    /\ popups = <<>>
    /\ \E ticked \in SUBSET (1 .. Len(save_popup.date_checkboxes)) :
         LET entries == Ticked(save_popup.date_checkboxes, ticked)
             r == SaveEach(table, storageOK, now, pending_save_info, popups,
                           save_popup.location,
                           [i \in 1 .. Len(entries) |-> entries[i].entry])
         IN  /\ WithinRows(r.table)
             /\ table' = r.table
             /\ pending_save_info' = r.pending
             /\ popups' = r.popups
             /\ last' = Call("save_selected",
                             [ok |-> storageOK, popup |-> save_popup, ticked |-> ticked],
                             [selected_count |-> r.selected_count,
                              candidates |-> r.candidates,
                              duplicates |-> r.duplicates],
                             r.writes)
    /\ save_popup' = None
    /\ UNCHANGED <<storageOK, now, loop, view, file, connections, scheduled, display, current_weather_data, current_weather_obj>>

\* "Cancel" is pressed in the SaveRecordsPopup.
PopupCancel ==
    /\ save_popup # None
    /\ popups = <<>>
    /\ save_popup' = None
    /\ last' = Call("SaveRecordsPopup.dismiss", None, None, <<>>)
    /\ UNCHANGED <<table, storageOK, now, pending_save_info, popups, loop, view, file, connections, scheduled, display, current_weather_data, current_weather_obj>>

\* The lookups on their own: two inputs, every answer of the services.
OnFetchWeather == OnFetchWeatherOf(ZipCodes)

FetchAndUpdate == FetchAndUpdateOf(Nets)

NextLookup ==
    \/ OnFetchWeather
    \/ FetchAndUpdate
    \/ OnSaveRecords
    \/ PopupCancel

SpecLookup == Init /\ [][NextLookup]_vars

\* The answers of the services to the lookups that come before a save: no
\* coordinates, and forecasts of a named city with two daytime periods, with
\* one, with no period after the first and with no daytime period.
AppNets ==
    { net \in Nets :
        \/ net.coordinates = "none"
        \/ /\ net.points = "ok"
           /\ net.hourly[1].status = "ok" /\ net.hourly[1].periods # <<>>
           /\ net.forecast[1].status = "ok" /\ net.forecast[1].periods # <<>> }

\* The lookups of the application with its save path: one input.
AppFetchWeather == OnFetchWeatherOf({<<"1">>})

AppFetchAndUpdate == FetchAndUpdateOf(AppNets)

NextApp ==
    \/ AppFetchWeather
    \/ AppFetchAndUpdate
    \/ OnSaveRecords
    \/ PopupSaveSelected
    \/ PopupCancel
    \/ ConfirmUpdate

SpecApp == Init /\ [][NextApp]_vars

\* The answers of the services in the application as a whole: no
\* coordinates, and one forecast with daytime periods.
FrameNets ==
    { net \in AppNets :
        \/ net.coordinates = "none"
        \/ net.forecast[1].periods = <<Today, TuesdayNight, Tuesday, Wednesday>> }

FrameFetchAndUpdate == FetchAndUpdateOf(FrameNets)

\* get_records_by_location with the search string that matches every location.
FrameGetByLocation == DbGetByLocationOf({<<>>})

\* Every handler of the application that reads or writes the store.
NextFrame ==
    \/ AppFetchWeather
    \/ FrameFetchAndUpdate
    \/ OnSaveRecords
    \/ PopupSaveSelected
    \/ PopupCancel
    \/ ConfirmUpdate
    \/ OnViewRecords
    \/ ConfirmDeleteSelected
    \/ ConfirmDelete
    \/ CancelDelete
    \/ ViewDismiss
    \/ OnExportRecords
    \/ DbGetAll
    \/ FrameGetByLocation
    \/ DbCount

SpecFrame == Init /\ [][NextFrame]_vars

(***************************************************************************)
(* Claims.                                                                 *)
(***************************************************************************)
\* The keys (location, date) of the model.
Keys == {<<l, DateStr(d)>> : l \in Locations, d \in Days}

\* The non-key fields of a row are those of the forecast values fc.
HasFields(r, fc) ==
    /\ r.temperature = fc.temperature
    /\ r.wind_speed = fc.wind_speed
    /\ r.wind_direction = fc.wind_direction
    /\ r.forecast = fc.forecast

\* No two rows of the table share a key.
OneRowPerKey(tbl) ==
    \A r \in Rows(tbl) :
        /\ tbl[r] = 1
        /\ \A q \in Rows(tbl) : (q.location = r.location /\ q.date = r.date) => q = r

\* This step is a call of WeatherDatabase.save_weather_record on the store
\* that met no storage fault.
DbSaveStep ==
    /\ last'.op = "db.save_weather_record"
    /\ storageOK' = storageOK
    /\ last'.args.ok

\* C1: in every sequence of WeatherDatabase.save_weather_record calls without
\* storage fault, the table holds at most one row per (location, date) after
\* each call; the row at the key of the call carries the fields of that call,
\* and the rows at every other key are the ones held before the call (so the
\* row at a key carries the fields of the most recent save to that key).
C1_LastSaveWins ==
    /\ [](OneRowPerKey(table))
    /\ [][DbSaveStep =>
            /\ last'.ret = TRUE
            /\ \E r \in Rows(table') :
                 /\ RowsAt(table', last'.args.location, last'.args.date_str) = {r}
                 /\ HasFields(r, last'.args.fc)
            /\ \A k \in Keys :
                 k # <<last'.args.location, last'.args.date_str>>
                    => RowsAt(table', k[1], k[2]) = RowsAt(table, k[1], k[2])
            /\ OneRowPerKey(table')]_vars

\* A save with temperature 75 has replaced a row with temperature 72 at the
\* same key: the table counts one row and the first listed row has 75.
C1_Witness ==
    /\ last.op = "db.save_weather_record"
    /\ last.args.ok
    /\ last.args.fc.temperature = 75
    /\ \E old \in last.args.before : old.temperature = 72
    /\ get_record_count(table, TRUE) = 1
    /\ get_all_records(table, TRUE)[1].temperature = 75

\* This step is one call of TemperatureDisplay.save_weather_record (an
\* iteration of save_selected), for the request below.
SaveCallStep == loop # Idle /\ loop' # Idle /\ loop'.remaining # loop.remaining

\* The date of the request of a save call.
ReqDate == DateStr(Head(loop.remaining))

\* What the request of a save call stashes when it is a duplicate.
ReqInfo == PendingInfo(loop.location, ReqDate, loop.forecast)

\* This step is a save call for a key that has a record, and the lookup of the
\* call meets no storage fault.
DuplicateCallStep ==
    /\ SaveCallStep
    /\ storageOK
    /\ RowsAt(table, loop.location, ReqDate) # {}

\* This step is a call of handle_duplicate_confirmation.
ConfirmStep == Len(popups') < Len(popups)

\* This step is a call of handle_duplicate_confirmation with True.
ConfirmTrueStep == ConfirmStep /\ last'.args.should_update

\* What a save call for an existing key does in the call itself: nothing is
\* written, False is returned, the request is stashed and a popup is opened.
DuplicateCallEffect ==
    /\ table' = table
    /\ last'.writes = <<>>
    /\ last'.ret = FALSE
    /\ pending_save_info' = ReqInfo
    /\ Len(popups') = Len(popups) + 1

\* The record at some key is overwritten in this step: the key has a row
\* before and after, and not the same one.
Overwritten(k) ==
    /\ RowsAt(table, k[1], k[2]) # {}
    /\ RowsAt(table', k[1], k[2]) # {}
    /\ RowsAt(table', k[1], k[2]) # RowsAt(table, k[1], k[2])

DeleteStep == last'.op = "delete_record" /\ storageOK' = storageOK

\* C3: a confirmation signal of False leaves every record of the store
\* unchanged and calls no save; it empties the pending slot and closes the
\* popup, and there is no retry: while the slot is empty the store contents
\* change only by a new save request or a deletion.
C3_CancelLeavesStore ==
    [][/\ (ConfirmStep /\ ~last'.args.should_update) =>
            /\ table' = table
            /\ last'.writes = <<>>
            /\ pending_save_info' = None
       /\ (pending_save_info = None /\ table' # table) => (SaveCallStep \/ DeleteStep)]_vars

\* Cancel has just been pressed on a conflict whose request differs from the
\* stored record: the record still has its old fields and the slot is empty.
C3_Witness ==
    /\ last.op = "handle_duplicate_confirmation"
    /\ ~last.args.should_update
    /\ pending_save_info = None
    /\ \E r \in RowsAt(table, last.args.popup.location, last.args.popup.date_str) :
          r.temperature # last.args.popup.request.temperature

\* The store call a save request makes when it commits.
ReqSaveCall ==
    SaveCall(loop.location, ReqDate, loop.forecast.temperature, loop.forecast.wind_speed,
             loop.forecast.wind_direction, loop.forecast.forecast)

\* C4: a save call for a key at which the store holds no record goes straight
\* to commit, whatever other records exist: the store's save is called once
\* with the given fields and its result (True unless the storage is faulty)
\* is returned, no confirmation is opened and pending_save_info is not
\* written.
C4_NewKeyCommitsDirectly ==
    [][(SaveCallStep /\ RowsAt(table, loop.location, ReqDate) = {}) =>
            /\ last'.writes = <<ReqSaveCall>>
            /\ last'.ret = storageOK
            /\ popups' = popups
            /\ pending_save_info' = pending_save_info]_vars

\* The popup that takes a confirmation in this step.
Resolved == popups[Len(popups)]

\* C5: a True confirmation of a conflict calls the store's save with the
\* fields stashed for the request that raised that conflict, so that (the
\* storage working) the record at the key of the conflict then carries exactly
\* those fields, and the records at all other keys are left as they were.
C5_ConfirmSavesItsRequest ==
    [][ConfirmTrueStep =>
            /\ last'.writes = <<SaveCall(Resolved.request.location, Resolved.request.date_str,
                                         Resolved.request.temperature,
                                         Resolved.request.wind_speed,
                                         Resolved.request.wind_direction,
                                         Resolved.request.forecast)>>
            /\ storageOK =>
                 \E r \in Rows(table') :
                    /\ RowsAt(table', Resolved.location, Resolved.date_str) = {r}
                    /\ HasFields(r, Resolved.request)
            /\ \A k \in Keys :
                 k # <<Resolved.location, Resolved.date_str>>
                    => RowsAt(table', k[1], k[2]) = RowsAt(table, k[1], k[2])]_vars

\* C6: at most one duplicate confirmation is outstanding, and a save call
\* stashes a request (and opens a confirmation) only when the slot is empty
\* and no confirmation is open.
C6_OnePendingConfirmation ==
    /\ [](Len(popups) <= 1)
    /\ [][(SaveCallStep /\ Len(popups') > Len(popups)) =>
             (pending_save_info = None /\ popups = <<>>)]_vars

\* C7: after every call of handle_duplicate_confirmation, whatever the signal
\* and whatever the store's save returned, pending_save_info is None.
C7_SlotClearedAfterConfirmation ==
    last.op = "handle_duplicate_confirmation" => pending_save_info = None

\* Update has just been pressed with a request stashed and the store's save
\* has failed: the slot is empty all the same.
C7_Witness ==
    /\ last.op = "handle_duplicate_confirmation"
    /\ last.args.should_update
    /\ last.writes # <<>>
    /\ last.ret = FALSE
    /\ pending_save_info = None

\* The calendar day a date text stands for.
DayOf(date) == 10 * (Ord(date[1]) - 48) + (Ord(date[2]) - 48)

\* The records of a list, with multiplicity, as a bag.
RECURSIVE BagOfList(_)
BagOfList(records) ==
    IF records = <<>> THEN EmptyBag
    ELSE SetToBag({Head(records)}) (+) BagOfList(Tail(records))

\* A list runs by date descending and, among equal dates, by location
\* ascending.
DateDescLocationAsc(records) ==
    \A i, j \in 1..Len(records) :
        i < j =>
            \/ DayOf(records[i].date) > DayOf(records[j].date)
            \/ /\ DayOf(records[i].date) = DayOf(records[j].date)
               /\ TextCmp(records[i].location, records[j].location) = -1

\* C8: get_all_records returns every stored record exactly once, by date
\* descending and, among equal dates, by location ascending, and the list is
\* that of the store as it is at the call, after all the saves and deletions
\* made before it.
C8_GetAllSorted ==
    (last.op = "get_all_records" /\ last.args.ok) =>
        /\ BagOfList(last.ret) = table
        /\ DateDescLocationAsc(last.ret)

\* get_all_records has listed three records, two of one date at different
\* locations and one of an earlier date.
C8_Witness ==
    /\ last.op = "get_all_records"
    /\ last.args.ok
    /\ Len(last.ret) = 3
    /\ last.ret[1].date = last.ret[2].date
    /\ last.ret[1].location # last.ret[2].location
    /\ DayOf(last.ret[3].date) < DayOf(last.ret[2].date)

\* The text s occurs in the text t, letter case aside.
RECURSIVE Contains(_, _)
Contains(t, s) ==
    \/ /\ Len(s) <= Len(t)
       /\ \A i \in 1..Len(s) : Fold(s[i]) = Fold(t[i])
    \/ t # <<>> /\ Contains(Tail(t), s)

\* C9: get_records_by_location(s) returns exactly the stored records whose
\* location contains s as a substring (letter case aside).
C9_ExactlySubstringMatches ==
    (last.op = "get_records_by_location" /\ last.args.ok) =>
        {last.ret[i] : i \in 1..Len(last.ret)} =
            {r \in Rows(table) : Contains(r.location, last.args.location)}

\* C10: the records get_records_by_location returns come in the order of
\* get_all_records: by date descending and, among equal dates, by location
\* ascending.
C10_SameOrderAsGetAll ==
    (last.op = "get_records_by_location" /\ last.args.ok) =>
        /\ DateDescLocationAsc(last.ret)
        /\ \A i, j \in 1..Len(last.ret) :
              i < j => \E m, n \in 1..Len(get_all_records(table, TRUE)) :
                          /\ m < n
                          /\ get_all_records(table, TRUE)[m] = last.ret[i]
                          /\ get_all_records(table, TRUE)[n] = last.ret[j]

\* C11: delete_record(L, D), the storage working, returns True exactly when
\* the table held a row with key exactly (L, D) before the call; afterwards
\* the table is the one before without that key, every other row unchanged
\* (so a delete of an absent key returns False and changes nothing, and a
\* second delete of the same key finds it absent).
C11_DeleteExactKey ==
    [][(DeleteStep /\ last'.args.ok) =>
            /\ last'.ret = (RowsAt(table, last'.args.location, last'.args.date_str) # {})
            /\ RowsAt(table', last'.args.location, last'.args.date_str) = {}
            /\ \A r \in Rows(table) :
                 (r.location # last'.args.location \/ r.date # last'.args.date_str)
                    => (r \in Rows(table') /\ table'[r] = table[r])
            /\ Rows(table') \subseteq Rows(table)]_vars

\* A delete of ("a", D) has returned True while the row of ("ab", D), whose
\* location contains "a", is still in the table.
C11_Witness ==
    /\ last.op = "delete_record"
    /\ last.args.ok
    /\ last.ret = TRUE
    /\ last.args.location = <<"a">>
    /\ RowsAt(table, <<"a", "b">>, last.args.date_str) # {}

\* This step is one bulk deletion: "Delete All" runs delete_selected_records
\* on the selected records of the open confirmation popup.
BatchStep ==
    /\ view # None
    /\ view.selected_records # <<>>
    /\ last'.op = "delete_selected_records"

\* The keys of the selected records of the batch of this step.
SelectedKeys ==
    {<<view.selected_records[i].location, view.selected_records[i].date>> :
        i \in 1..Len(view.selected_records)}

\* The selected keys that the table holds when the batch starts.
PresentKeys == {k \in SelectedKeys : RowsAt(table, k[1], k[2]) # {}}

IsDelete(c) == c.fn = "delete_record"

\* C13: a bulk deletion of n selected records invokes the store's delete
\* exactly once per selected record, n times in all, whatever the results.
C13_OneDeletePerRecord ==
    [][BatchStep =>
            SelectSeq(last'.writes, IsDelete) =
                [i \in 1..Len(view.selected_records) |->
                    StoreCall("delete_record", view.selected_records[i].location,
                              view.selected_records[i].date)]]_vars

\* This step is a press of "Delete Selected" with no checkbox ticked (the
\* steps of the environment leave the history as it is).
EmptySelectionStep ==
    /\ view # None
    /\ view.selected_records = <<>>
    /\ ~view.leftover
    /\ last' # last
    /\ last'.op = "confirm_delete_selected"
    /\ last'.args.selected_records = <<>>

\* C14: with an empty selection confirm_delete_selected calls nothing on the
\* store, opens no confirmation and reports "No Selection"; a batch that
\* deleted no record reports something else ("Error").
C14_EmptySelectionRejected ==
    [][/\ EmptySelectionStep =>
            /\ last'.writes = <<>>
            /\ table' = table
            /\ view' = view
            /\ last'.ret.title = "No Selection"
       /\ (BatchStep /\ last'.ret.success_count = 0) =>
            /\ last'.ret.report.title = "Error"
            /\ last'.ret.report.title # "No Selection"]_vars

\* "Delete Selected" has been pressed on a list of records with none ticked.
C14_Witness ==
    /\ last.op = "confirm_delete_selected"
    /\ last.args.selected_records = <<>>
    /\ last.ret = Report("No Selection", None)
    /\ view # None
    /\ view.records # <<>>
    /\ view.selected_records = <<>>

\* C15: after every bulk deletion, also one that deleted nothing, the list of
\* the ViewRecordsPopup is fetched anew with get_all_records, so that the
\* list shown equals the contents of the store after the batch.
C15_ListRefetchedAfterBatch ==
    [][BatchStep =>
            /\ \E i \in 1..Len(last'.writes) : last'.writes[i].fn = "get_all_records"
            /\ view'.records = get_all_records(table', storageOK)]_vars

\* This step is a call of one of the five operations of the store that meets
\* a storage fault (the faults themselves are the only other steps of the
\* store's specification, and they change storageOK).
FaultedOperationStep ==
    /\ ~storageOK
    /\ storageOK' = storageOK
    /\ last'.op \in {"db.save_weather_record", "get_all_records", "get_records_by_location",
                     "delete_record", "get_record_count"}

\* C16: an operation of the store that meets a storage fault returns its
\* failure value (False for save and delete, the empty list for the two
\* listings, 0 for the count) in place of an exception, and leaves the table
\* as it was.
C16_FaultsGiveFailureValues ==
    [][FaultedOperationStep =>
            /\ table' = table
            /\ CASE last'.op \in {"db.save_weather_record", "delete_record"} -> last'.ret = FALSE
                 [] last'.op \in {"get_all_records", "get_records_by_location"} -> last'.ret = <<>>
                 [] last'.op = "get_record_count" -> last'.ret = 0]_vars

\* A count has been asked of a faulty storage that holds two rows, and 0 was
\* returned; the rows are still there.
C16_Witness ==
    /\ last.op = "get_record_count"
    /\ ~last.args.ok
    /\ last.ret = 0
    /\ ~storageOK
    /\ BagCardinality(table) = 2

\* This step is a save on the store, the storage working, under the running
\* clock (a tick leaves the history as it is and advances now).
ClockSaveStep == DbSaveStep /\ now' = now

\* C17: a save on a key that has a row replaces temperature, wind_speed,
\* wind_direction and forecast and sets created_at to the time of the
\* replacement, the number of rows unchanged; a save on a new key adds exactly
\* one row, created_at being the time of the call; in both cases the rows at
\* the other keys are unchanged.
C17_ReplaceRefreshesCreatedAt ==
    [][ClockSaveStep =>
            /\ \E r \in Rows(table') :
                 /\ RowsAt(table', last'.args.location, last'.args.date_str) = {r}
                 /\ table'[r] = 1
                 /\ HasFields(r, last'.args.fc)
                 /\ r.created_at = now
            /\ BagCardinality(table') =
                 BagCardinality(table)
                    + (IF RowsAt(table, last'.args.location, last'.args.date_str) = {}
                       THEN 1 ELSE 0)
            /\ \A r \in Rows(table) :
                 (r.location # last'.args.location \/ r.date # last'.args.date_str)
                    => (r \in Rows(table') /\ table'[r] = table[r])]_vars

\* A row saved at second 0 with temperature 72 has been replaced at second 1
\* by a save of 75: it carries created_at 1, and the row of another key,
\* saved at second 0, is still there.
C17_Witness ==
    /\ last.op = "db.save_weather_record"
    /\ last.args.ok
    /\ \E old \in last.args.before : old.created_at = 0 /\ old.temperature = 72
    /\ \E r \in RowsAt(table, last.args.location, last.args.date_str) :
          r.created_at = 1 /\ r.temperature = 75
    /\ BagCardinality(table) = 2
    /\ \E q \in Rows(table) : q.date # last.args.date_str /\ q.created_at = 0

\* The number a decimal text stands for, as int(text) reads it.
RECURSIVE DigitsValue(_)
DigitsValue(text) ==
    IF text = <<>> THEN 0
    ELSE 10 * DigitsValue(SubSeq(text, 1, Len(text) - 1))
         + (CHOOSE d \in 0 .. 9 : Digit(d) = text[Len(text)])

IntOfText(text) ==
    IF Head(text) = "-" THEN 0 - DigitsValue(Tail(text)) ELSE DigitsValue(text)

\* What a parser gives for the text of a leaf element: the characters of each
\* of its text nodes.  An element without a text node has no text (its text
\* is None in ElementTree), which is not the empty text.
TextOf(element) == [i \in 1 .. Len(element.data) |-> CharacterData(element.data[i])]

\* The state after the Export button ran export_records_to_xml on a list
\* of records.
Exported == last.op = "on_export_records" /\ last.ret.exported

\* The state after an export that met no fault.
ExportedWhole == Exported /\ last.args.fault = "none"

\* C18: an export of a list of N records writes a document whose root has
\* the attribute total_records equal to N and exactly N weather_record
\* children, the i-th of them carrying the location and the date of the i-th
\* record of the list.
C18_DocumentListsRecordsInOrder ==
    ExportedWhole =>
        LET records == last.args.records
        IN  /\ file.declaration
            /\ Len(file.body) = 1
            /\ LET root == file.body[1]
               IN  /\ IntOfText(root.total_records) = Len(records)
                   /\ Len(root.children) = Len(records)
                   /\ \A i \in 1 .. Len(records) :
                        /\ root.children[i].tag = "weather_record"
                        /\ TextOf(root.children[i].children[1]) = <<records[i].location>>
                        /\ TextOf(root.children[i].children[2]) = <<records[i].date>>

C18_Witness ==
    /\ ExportedWhole
    /\ Len(last.args.records) = 2
    /\ last.args.records[1].date # last.args.records[2].date
    /\ Len(file.body[1].children) = 2

\* The seven leaves of a weather_record element give back the field values
\* of a record: the names in the fixed order, and the text of each leaf equal
\* to the value of the field (the decimal text of the temperature reads back
\* as the number).
Reproduces(element, record) ==
    /\ [i \in 1 .. Len(element.children) |-> element.children[i].tag]
         = <<"location", "date", "temperature", "wind_speed", "wind_direction",
             "forecast", "created_at">>
    /\ TextOf(element.children[1]) = <<record.location>>
    /\ TextOf(element.children[2]) = <<record.date>>
    /\ TextOf(element.children[3]) = <<str(record.temperature)>>
    /\ IntOfText(TextOf(element.children[3])[1]) = record.temperature
    /\ TextOf(element.children[4]) = <<record.wind_speed>>
    /\ TextOf(element.children[5]) = <<record.wind_direction>>
    /\ TextOf(element.children[6]) = <<record.forecast>>
    /\ TextOf(element.children[7]) = <<Timestamp(record.created_at)>>

\* C19: in a complete exported document, the seven leaves of every
\* weather_record element read back as the original field values of its
\* record, also for a record whose forecast is the empty text.
C19_FieldsReadBack ==
    (ExportedWhole /\ Len(file.body) = 1) =>
        \A i \in 1 .. Len(last.args.records) :
            Reproduces(file.body[1].children[i], last.args.records[i])

\* The same for the records whose forecast is not the empty text.
C19_FieldsReadBackUnlessEmpty ==
    (ExportedWhole /\ Len(file.body) = 1) =>
        \A i \in 1 .. Len(last.args.records) :
            last.args.records[i].forecast # <<>> =>
                Reproduces(file.body[1].children[i], last.args.records[i])

\* C20: an export returns True only if the declaration line and the whole
\* root element with every record are in the file, and an export that met a
\* fault returns False and reports "Export Failed", whatever part of the
\* file was written.
C20_TrueOnlyIfComplete ==
    Exported =>
        /\ last.ret.success \in BOOLEAN
        /\ last.ret.success =>
             /\ file = File(TRUE, <<Document(last.args.records, now)>>)
             /\ Len(file.body[1].children) = Len(last.args.records)
             /\ last.ret.report = Report("Export Successful", Len(last.args.records))
        /\ last.args.fault # "none" =>
             /\ ~last.ret.success
             /\ last.ret.report.title = "Export Failed"

\* An export failed in the second write and left a file holding the
\* declaration line alone.
C20_Witness ==
    /\ Exported
    /\ last.args.fault = "body"
    /\ ~last.ret.success
    /\ file = File(TRUE, <<>>)

\* A step that is one call of a method of WeatherDatabase.
ConnOps ==
    {"db.init_database", "db.save_weather_record", "db.delete_record",
     "db.get_all_records", "db.get_records_by_location", "db.get_record_count"}

StoreOperationStep == last' # last /\ last'.op \in ConnOps

\* C21: when a store operation returns, on every exit path, the connection
\* it opened is closed: no connection is open after the operation.
C21_NoConnectionOpenAfterOperation ==
    [][StoreOperationStep => connections' = 0]_vars

\* The value a method of WeatherDatabase returns on a storage fault.
FailureValue(op) ==
    CASE op = "db.save_weather_record" -> FALSE
      [] op = "db.delete_record" -> FALSE
      [] op = "db.get_all_records" -> <<>>
      [] op = "db.get_records_by_location" -> <<>>
      [] op = "db.get_record_count" -> 0
      [] op = "db.init_database" -> [raised |-> FALSE]

SaveCallsOf(writes) == SelectSeq(writes, LAMBDA c : c.fn = "save_weather_record")

\* A step of the save path: save_selected with its CHECKING steps, or the
\* answer to a ConfirmUpdatePopup.
SavePathStep ==
    /\ last' # last
    /\ last'.op \in {"save_selected", "handle_duplicate_confirmation"}

\* A step of explicit deletion: the confirmed bulk deletion of the view.
DeletionStep == last' # last /\ last'.op = "delete_selected_records"

\* The calls of the store's save that a save_selected is to make: one for
\* each candidate whose CHECKING step found no duplicate, in order.
CallsOfUnduplicated(candidates, duplicates) ==
    LET tagged == [i \in 1 .. Len(candidates) |-> [c |-> candidates[i], dup |-> duplicates[i]]]
        kept == SelectSeq(tagged, LAMBDA t : ~t.dup)
    IN  [i \in 1 .. Len(kept) |->
            SaveCall(kept[i].c.location, kept[i].c.date_str, kept[i].c.temperature,
                     kept[i].c.wind_speed, kept[i].c.wind_direction, kept[i].c.forecast)]

\* C23: a row appears in the store only in a step of the save path and a row
\* disappears only there (replaced) or in an explicit deletion, so the
\* reads, the export, the view and the lookups leave the store as it is; and
\* the store's save is called only for a candidate whose CHECKING step found
\* no duplicate, or by a confirmation of True.
C23_StoreChangesOnlyBySaveOrDelete ==
    [][ /\ (Rows(table') \ Rows(table) # {}) => SavePathStep
        /\ (Rows(table) \ Rows(table') # {}) => (SavePathStep \/ DeletionStep)
        /\ (last' # last /\ last'.op \notin {"save_selected", "handle_duplicate_confirmation"})
              => SaveCallsOf(last'.writes) = <<>>
        /\ (last' # last /\ last'.op = "save_selected")
              => last'.writes = CallsOfUnduplicated(last'.ret.candidates, last'.ret.duplicates)
        /\ (last' # last /\ last'.op = "handle_duplicate_confirmation" /\ last'.writes # <<>>)
              => last'.args.should_update ]_vars

\* A save_selected met a duplicate and a new date: it saved the one and
\* left the other to the confirmation; the store holds a record.
C23_Witness ==
    /\ last.op = "save_selected"
    /\ Len(last.ret.candidates) = 2
    /\ Len(last.writes) = 1
    /\ popups # <<>>
    /\ file # None

\* The table after the given calls of the store's save, in order.
RECURSIVE ApplySaves(_, _, _, _)
ApplySaves(tbl, ok, ts, calls) ==
    IF calls = <<>> THEN tbl
    ELSE LET c == Head(calls)
         IN  ApplySaves(save_weather_record(tbl, ok, ts, c.location, c.date_str,
                            c.temperature, c.wind_speed, c.wind_direction,
                            c.forecast).table,
                        ok, ts, Tail(calls))

\* The fields of a record candidate.
CandidateFields ==
    {"location", "date_str", "temperature", "wind_speed", "wind_direction", "forecast"}

\* C24: the candidate save_selected passes on for a ticked date carries the
\* temperature, wind_speed, wind_direction and forecast of the date's
\* forecast period unchanged and has no field for its name, daytime or
\* precipitation_probability; the held forecast data is the same after
\* save_selected, and the store differs by the save calls of the save path
\* and by nothing else.
C24_CandidateCarriesPeriodValues ==
    [][(last' # last /\ last'.op = "save_selected") =>
         LET entries == Ticked(last'.args.popup.date_checkboxes, last'.args.ticked)
             candidates == last'.ret.candidates
         IN  /\ Len(candidates) = Len(entries)
             /\ \A i \in 1 .. Len(entries) :
                  LET forecast == entries[i].entry.forecast
                      candidate == candidates[i]
                  IN  /\ candidate.location = last'.args.popup.location
                      /\ candidate.date_str = entries[i].entry.date_str
                      /\ candidate.temperature = forecast.temperature
                      /\ candidate.wind_speed = forecast.wind_speed
                      /\ candidate.wind_direction = forecast.wind_direction
                      /\ candidate.forecast = forecast.forecast
                      /\ DOMAIN candidate = CandidateFields
             /\ current_weather_data' = current_weather_data
             /\ current_weather_obj' = current_weather_obj
             /\ table' = ApplySaves(table, storageOK, now, last'.writes) ]_vars

\* A save_selected passed on the candidate of a period whose wind speed and
\* direction differ and whose name and precipitation are not empty, and the
\* candidate was saved.
C24_Witness ==
    /\ last.op = "save_selected"
    /\ last.ret.candidates # <<>>
    /\ last.writes # <<>>
    /\ LET forecast == last.args.popup.date_checkboxes[1].forecast
       IN  /\ forecast.wind_speed # forecast.wind_direction
           /\ forecast.name # <<>>
           /\ forecast.daytime
           /\ forecast.precipitation_probability > 0
    /\ BagCardinality(table) > 0

\* The answers of one forecast URL give no data: the first answer is a
\* failure or an empty list, and so is the answer to the second try.
NoData(answers) ==
    /\ answers[1].status = "fail" \/ answers[1].periods = <<>>
    /\ answers[2].status = "fail" \/ answers[2].periods = <<>>

\* The services give a lookup no coordinates, no grid point or no data for
\* one of the two forecasts.
LookupFails(net) ==
    \/ net.coordinates = "none"
    \/ net.points = "fail"
    \/ NoData(net.hourly)
    \/ NoData(net.forecast)

\* C25: after a _fetch_and_update whose lookup got no coordinates, no grid
\* point or no forecast data, the display reads "Not found" with an empty
\* forecast list, current_weather_data and current_weather_obj are None, and
\* no exception has left _fetch_and_update.
C25_FailedLookupShowsNotFound ==
    (last.op = "_fetch_and_update" /\ LookupFails(last.args.net)) =>
        /\ display.text = "Not found"
        /\ display.forecast_list = <<>>
        /\ current_weather_data = None
        /\ current_weather_obj = None
        /\ ~last.ret.raised

\* A lookup with coordinates failed for lack of forecast data after an
\* earlier lookup had succeeded and left forecast data to clear.
C25_Witness ==
    /\ last.op = "_fetch_and_update"
    /\ last.args.net.coordinates = "found"
    /\ last.args.net.points = "ok"
    /\ NoData(last.args.net.forecast)
    /\ display.found
    /\ display.text = "Not found"

\* Two lookups are requested and none of them has resolved.
TwoPending == Len(scheduled) = 2 /\ scheduled[1] # scheduled[2]

\* The response to the newer of the pending requests is applied while the
\* older request stays pending, to be applied after it.
NewerAppliedFirst ==
    /\ FetchAndUpdate
    /\ last'.args.zip_code = scheduled[Len(scheduled)]
    /\ scheduled' = SubSeq(scheduled, 1, Len(scheduled) - 1)

ConfirmWithEmptySlotStep ==
    /\ last' # last
    /\ last'.op = "handle_duplicate_confirmation"
    /\ last'.args.should_update
    /\ pending_save_info = None

\* C27: a confirmation of True that finds pending_save_info empty calls no
\* operation of the store and leaves the store contents as they are: the
\* request of the popup it answers is dropped, without a report, and
\* pending_save_info stays empty.
C27_ConfirmationWithEmptySlotDropsRequest ==
    [][ConfirmWithEmptySlotStep =>
          /\ last'.writes = <<>>
          /\ table' = table
          /\ last'.ret = FALSE
          /\ pending_save_info' = None
          /\ popups' = SubSeq(popups, 1, Len(popups) - 1) ]_vars

\* The second of two outstanding confirmations was answered True after the
\* first had cleared the slot: nothing was saved, and the store still holds
\* the record that the dropped request was to replace.
C27_Witness ==
    /\ last.op = "handle_duplicate_confirmation"
    /\ last.args.should_update
    /\ storageOK
    /\ last.writes = <<>>
    /\ pending_save_info = None
    /\ LET request == last.args.popup.request
       IN  \E r \in RowsAt(table, request.location, request.date_str) :
              r.forecast # request.forecast

\* The first period of a forecast list whose daytime flag is true, as a list
\* of one, or the empty list when there is none.
FirstDaytime(weather_data) ==
    LET at == {i \in 1 .. Len(weather_data) : weather_data[i].daytime}
    IN  IF at = {} THEN <<>>
        ELSE <<weather_data[CHOOSE i \in at : \A j \in at : i <= j]>>

\* The values a record takes from a forecast period.
ValuesOf(c) == <<c.temperature, c.wind_speed, c.wind_direction, c.forecast>>

C28_WitnessNoDaytime ==
    /\ save_popup # None
    /\ save_popup.weather_data # <<>>
    /\ save_popup.date_checkboxes = <<>>

\* "Save Records" is pressed.
OnSaveRecordsStep == last' # last /\ last'.op = "on_save_records"

\* Forecast data of a lookup is held: a forecast list that is not empty and
\* the weather object it came from.
HoldsForecast ==
    /\ current_weather_data # None
    /\ current_weather_data.list # <<>>
    /\ current_weather_obj # None

\* No lookup has succeeded, or the display shows that the last lookup applied
\* found nothing or gave no future forecast.
NothingToSave ==
    \/ ~display.found
    \/ display.text = "Not found"
    \/ display.text = "temperature" /\ display.forecast_list = <<>>

\* C29: on_save_records opens the SaveRecordsPopup only while forecast data
\* of a successful lookup is held; before any lookup has succeeded, after a
\* failed lookup and after a lookup with an empty future forecast list it
\* shows "Please fetch weather data first!", opens no popup and calls no
\* operation of the store; and the store holds no record unless a lookup has
\* succeeded before.
C29_SaveOnlyWithHeldForecast ==
    /\ [](table # EmptyBag => display.found)
    /\ [][OnSaveRecordsStep =>
            /\ last'.ret.accepted <=> HoldsForecast
            /\ last'.ret.accepted => display.found /\ save_popup' # None
            /\ NothingToSave => ~last'.ret.accepted
            /\ ~last'.ret.accepted =>
                 /\ last'.ret.report = Report("Error", None)
                 /\ save_popup' = None
                 /\ last'.writes = <<>>
                 /\ table' = table ]_vars

\* "Save Records" was refused after a lookup that succeeded with an empty
\* future forecast list, and that after an earlier save had put a record
\* into the store.
C29_Witness ==
    /\ last.op = "on_save_records"
    /\ ~last.ret.accepted
    /\ last.args.current_weather_data # None
    /\ display.text = "temperature"
    /\ table # EmptyBag

====
